---- MODULE Spec2Model ----
(***************************************************************************)
(* Model of the BragerOne integration's write preparer (command_write.py), *)
(* descriptor classifier (bootstrap.py), runtime write path (runtime.py)   *)
(* and config entry setup (__init__.py, config_flow.py).                   *)
(*                                                                         *)
(* Python values are records [t, n, d, s]: t is the Python type, n/d the   *)
(* numeric value as a fraction in lowest terms (d > 0), s the text of a    *)
(* str as a sequence of one-character strings.  bool is a numeric type, as *)
(* in Python (True == 1).  Floats are exact finite rationals, and NaN is   *)
(* the float with d = 0; rounding and infinities are not modelled.         *)
(***************************************************************************)
EXTENDS Integers, Sequences, FiniteSets, TLC

VARIABLES fn, input_display_value, context, pc, converted_value,
          numeric_raw_value, route, outcome, prepared

writeVars == <<fn, input_display_value, context, pc, converted_value,
               numeric_raw_value, route, outcome, prepared>>

VARIABLES cfn, candidate, descriptors_raw, cpc, exposable, platform, normalized

classifyVars == <<cfn, candidate, descriptors_raw, cpc, exposable, platform, normalized>>


(* ------------------------------ bounds -------------------------------- *)

MaxMapLen == 2

MaxCtxMapLen == 1

MaxDescriptors == 2

MaxEnumLen == 2

MaxRules == 2

MaxSetups == 3

(* --------------------------- Python values ---------------------------- *)

Abs(x) == IF x < 0 THEN -x ELSE x

RECURSIVE Gcd(_, _)
Gcd(a, b) == IF b = 0 THEN a ELSE Gcd(b, a % b)

Sign(x) == IF x < 0 THEN -1 ELSE 1

NormN(n, d) == IF n = 0 THEN 0 ELSE (Sign(d) * n) \div Gcd(Abs(n), Abs(d))

NormD(n, d) == IF n = 0 THEN 1 ELSE Abs(d) \div Gcd(Abs(n), Abs(d))

None == [t |-> "none", n |-> 0, d |-> 1, s |-> <<>>]

PyStr(chars) == [t |-> "str", n |-> 0, d |-> 1, s |-> chars]

PyInt(i) == [t |-> "int", n |-> i, d |-> 1, s |-> <<>>]

PyFloat(n, d) == [t |-> "float", n |-> NormN(n, d), d |-> NormD(n, d), s |-> <<>>]

PyBool(b) == [t |-> "bool", n |-> IF b THEN 1 ELSE 0, d |-> 1, s |-> <<>>]

\* float("nan")
PyNaN == [t |-> "float", n |-> 0, d |-> 0, s |-> <<>>]

IsNaN(v) == v.t = "float" /\ v.d = 0

\* the empty list []: a value that is not hashable
PyList == [t |-> "list", n |-> 0, d |-> 1, s |-> <<>>]

\* hash(v) succeeds
Hashable(v) == v.t # "list"

IsNumber(v) == v.t \in {"int", "float", "bool"}

\* isinstance(v, int | float) and not isinstance(v, bool)
IsNumericNotBool(v) == v.t \in {"int", "float"}

\* Python ==
PyEq(a, b) ==
    IF IsNumber(a) /\ IsNumber(b)
    THEN ~IsNaN(a) /\ ~IsNaN(b) /\ a.n * b.d = b.n * a.d
    ELSE IF a.t = "str" /\ b.t = "str" THEN a.s = b.s
    ELSE a.t \in {"none", "list"} /\ a.t = b.t

\* Python < on numbers
PyLt(a, b) == a.n * b.d < b.n * a.d

(* ------------------------- command_write.py --------------------------- *)

NoErr == [kind |-> "", value |-> None, limit |-> None, labels |-> {}]

Return(v) == [ok |-> TRUE, val |-> v, err |-> NoErr]

Raise(kind, value, limit, labels) ==
    [ok |-> FALSE, val |-> None,
     err |-> [kind |-> kind, value |-> value, limit |-> limit, labels |-> labels]]

\* an enum mapping is a dict with str keys in insertion order: a sequence of
\* [label, raw] entries with pairwise different labels
Keys(m) == {m[i].label : i \in 1..Len(m)}

\* key in m
InDict(v, m) == v.t = "str" /\ v.s \in Keys(m)

\* m[key]
DictGet(m, key) == m[CHOOSE i \in 1..Len(m) : m[i].label = key].raw

\* v in m.values()
InValues(v, m) == \E i \in 1..Len(m) : PyEq(m[i].raw, v)

\* str(v) of a str
StrOfStr(v) == v.s

enum_display_to_raw_RawFirst(display_value, enum_mapping) ==
    IF InValues(display_value, enum_mapping)
    THEN Return(display_value)
    ELSE IF InDict(display_value, enum_mapping)
    THEN Return(DictGet(enum_mapping, StrOfStr(display_value)))
    ELSE Raise("invalid_enum", display_value, None, Keys(enum_mapping))

enum_display_to_raw(display_value, enum_mapping) ==
    IF InDict(display_value, enum_mapping)
    THEN Return(DictGet(enum_mapping, StrOfStr(display_value)))
    ELSE IF InValues(display_value, enum_mapping)
    THEN Return(display_value)
    ELSE Raise("invalid_enum", display_value, None, Keys(enum_mapping))

enum_raw_to_display_LastMatch(raw_value, enum_mapping) ==
    LET hits == {i \in 1..Len(enum_mapping) : PyEq(enum_mapping[i].raw, raw_value)}
    IN  IF hits = {} THEN raw_value
        ELSE PyStr(enum_mapping[CHOOSE i \in hits : \A j \in hits : j <= i].label)

enum_raw_to_display(raw_value, enum_mapping) ==
    LET hits == {i \in 1..Len(enum_mapping) : PyEq(enum_mapping[i].raw, raw_value)}
    IN  IF hits = {} THEN raw_value
        ELSE PyStr(enum_mapping[CHOOSE i \in hits : \A j \in hits : i <= j].label)

select_command_route_RuleFirst(has_parameter_address, has_command_rule) ==
    IF has_command_rule THEN [ok |-> TRUE, route |-> "raw_command", err |-> NoErr]
    ELSE IF has_parameter_address
    THEN [ok |-> TRUE, route |-> "parameter_write", err |-> NoErr]
    ELSE [ok |-> FALSE, route |-> "",
          err |-> [kind |-> "no_route", value |-> None, limit |-> None, labels |-> {}]]

select_command_route(has_parameter_address, has_command_rule) ==
    IF has_parameter_address
    THEN [ok |-> TRUE, route |-> "parameter_write", err |-> NoErr]
    ELSE IF has_command_rule THEN [ok |-> TRUE, route |-> "raw_command", err |-> NoErr]
    ELSE [ok |-> FALSE, route |-> "",
          err |-> [kind |-> "no_route", value |-> None, limit |-> None, labels |-> {}]]

\* float.is_integer(), then int(raw_value)
_coerce_number(raw_value) ==
    IF raw_value.d = 1 THEN PyInt(raw_value.n) ELSE raw_value

_inverse_transform_NoScaleCheck(value, transform) ==
    IF transform.scale.n = 0
    THEN Return(_coerce_number(PyFloat(value.n, value.d)))
    ELSE Return(_coerce_number(PyFloat(
            (value.n * transform.offset.d - transform.offset.n * value.d)
                * transform.scale.d,
            value.d * transform.offset.d * transform.scale.n)))

_inverse_transform_Forward(value, transform) ==
    IF transform.scale.n = 0
    THEN Raise("scale_zero", value, None, {})
    ELSE Return(_coerce_number(PyFloat(
            value.n * transform.scale.n * transform.offset.d
                + transform.offset.n * value.d * transform.scale.d,
            value.d * transform.scale.d * transform.offset.d)))

\* (float(value) - transform.offset) / transform.scale
_inverse_transform(value, transform) ==
    IF transform.scale.n = 0
    THEN Raise("scale_zero", value, None, {})
    ELSE Return(_coerce_number(PyFloat(
            (value.n * transform.offset.d - transform.offset.n * value.d)
                * transform.scale.d,
            value.d * transform.offset.d * transform.scale.n)))

_validate_raw_bounds_Strict(raw_value, raw_min, raw_max) ==
    IF raw_min.t # "none" /\ ~PyLt(raw_min, raw_value)
    THEN Raise("below_minimum", raw_value, raw_min, {})
    ELSE IF raw_max.t # "none" /\ ~PyLt(raw_value, raw_max)
    THEN Raise("exceeds_maximum", raw_value, raw_max, {})
    ELSE Return(None)

_validate_raw_bounds(raw_value, raw_min, raw_max) ==
    IF raw_min.t # "none" /\ PyLt(raw_value, raw_min)
    THEN Raise("below_minimum", raw_value, raw_min, {})
    ELSE IF raw_max.t # "none" /\ PyLt(raw_max, raw_value)
    THEN Raise("exceeds_maximum", raw_value, raw_max, {})
    ELSE Return(None)

(* ------------------------ Python str methods -------------------------- *)
\* Text is ASCII: letters, digits, space and punctuation.  On such text
\* str.lower() and str.casefold() agree; " " stands for every whitespace.

UpperAlpha == <<"A", "B", "C", "D", "E", "F", "G", "H", "I", "J", "K", "L", "M", "N", "O", "P", "Q", "R", "S", "T", "U", "V", "W", "X", "Y", "Z">>

LowerAlpha == <<"a", "b", "c", "d", "e", "f", "g", "h", "i", "j", "k", "l", "m", "n", "o", "p", "q", "r", "s", "t", "u", "v", "w", "x", "y", "z">>

DigitChars == <<"0", "1", "2", "3", "4", "5", "6", "7", "8", "9">>

IndexIn(c, alphabet) ==
    IF \E i \in 1..Len(alphabet) : alphabet[i] = c
    THEN CHOOSE i \in 1..Len(alphabet) : alphabet[i] = c
    ELSE 0

LowerChar(c) == IF IndexIn(c, UpperAlpha) > 0 THEN LowerAlpha[IndexIn(c, UpperAlpha)] ELSE c

UpperChar(c) == IF IndexIn(c, LowerAlpha) > 0 THEN UpperAlpha[IndexIn(c, LowerAlpha)] ELSE c

\* str.lower(), str.casefold()
Lower(text) == [i \in 1..Len(text) |-> LowerChar(text[i])]

\* str.upper()
Upper(text) == [i \in 1..Len(text) |-> UpperChar(text[i])]

\* str.strip()
Strip(text) ==
    LET solid == {i \in 1..Len(text) : text[i] # " "}
    IN  IF solid = {} THEN <<>>
        ELSE LET first == CHOOSE i \in solid : \A j \in solid : i <= j
                 last == CHOOSE i \in solid : \A j \in solid : j <= i
             IN  SubSeq(text, first, last)

\* needle in text
Contains(text, needle) ==
    \E i \in 1..(Len(text) - Len(needle) + 1) :
        SubSeq(text, i, i + Len(needle) - 1) = needle

\* text.startswith(prefix)
StartsWith(text, prefix) ==
    Len(prefix) <= Len(text) /\ SubSeq(text, 1, Len(prefix)) = prefix

RECURSIVE NatDigits(_)
NatDigits(k) ==
    IF k < 10 THEN <<DigitChars[k + 1]>>
    ELSE NatDigits(k \div 10) \o <<DigitChars[(k % 10) + 1]>>

IntDigits(i) == IF i < 0 THEN <<"-">> \o NatDigits(-i) ELSE NatDigits(i)

RECURSIVE Pow10(_)
Pow10(k) == IF k = 0 THEN 1 ELSE 10 * Pow10(k - 1)

\* decimal places of a fraction with denominator d (d divides a power of ten)
DecimalPlaces(d) == CHOOSE k \in 0..6 : Pow10(k) % d = 0 /\ \A j \in 0..(k - 1) : Pow10(j) % d # 0

RECURSIVE PadZeros(_, _)
PadZeros(text, width) == IF Len(text) >= width THEN text ELSE PadZeros(<<"0">> \o text, width)

\* repr of a float n/d whose decimal expansion ends
FloatDigits(n, d) ==
    LET k == DecimalPlaces(d)
        whole == Abs(n) \div d
        frac == (Abs(n) % d) * (Pow10(k) \div d)
    IN  (IF n < 0 THEN <<"-">> ELSE <<>>) \o NatDigits(whole) \o <<".">>
            \o (IF k = 0 THEN <<"0">> ELSE PadZeros(NatDigits(frac), k))

\* str(v)
PyStrOf(v) ==
    CASE v.t = "str" -> v.s
      [] v.t = "none" -> <<"N", "o", "n", "e">>
      [] v.t = "bool" -> IF v.n = 1 THEN <<"T", "r", "u", "e">>
                         ELSE <<"F", "a", "l", "s", "e">>
      [] v.t = "int" -> IntDigits(v.n)
      [] v.t = "float" -> IF IsNaN(v) THEN <<"n", "a", "n">> ELSE FloatDigits(v.n, v.d)
      [] v.t = "list" -> <<"[", "]">>

\* bool(v)
Truthy(v) ==
    CASE v.t = "str" -> v.s # <<>>
      [] v.t = "none" -> FALSE
      [] OTHER -> v.n # 0 \/ IsNaN(v)

(* ---------------------------- bootstrap.py ----------------------------- *)

_NON_ENTITY_COMPONENT_MARKERS ==
    {<<"p", "a", "s", "s", "w", "o", "r", "d">>,
     <<"m", "e", "n", "u">>,
     <<"v", "i", "e", "w">>,
     <<"s", "e", "p", "a", "r", "a", "t", "o", "r">>,
     <<"t", "i", "t", "l", "e">>}

_SWITCHISH_RULE_VALUES ==
    {<<"0">>,
     <<"1">>,
     <<"t", "r", "u", "e">>,
     <<"f", "a", "l", "s", "e">>,
     <<"o", "n">>,
     <<"o", "f", "f">>,
     <<"e", "n", "a", "b", "l", "e", "d">>,
     <<"d", "i", "s", "a", "b", "l", "e", "d">>,
     <<"y", "e", "s">>,
     <<"n", "o">>}

\* mapping is None (or no dict)
NoDictMapping ==
    [isdict |-> FALSE, component_type |-> None,
     values |-> [kind |-> "none", items |-> <<>>],
     command_rules |-> [kind |-> "none", items |-> <<>>],
     units_source |-> [kind |-> "none", items |-> <<>>]]

DictMapping(component_type, values, command_rules, units_source) ==
    [isdict |-> TRUE, component_type |-> component_type, values |-> values,
     command_rules |-> command_rules, units_source |-> units_source]

Missing == [kind |-> "none", items |-> <<>>]

ListOf(items) == [kind |-> "list", items |-> items]

MappingOf(items) == [kind |-> "mapping", items |-> items]

\* one command rule {command, logic?, value}; absent keys are None
CommandRule(command, logic, value) ==
    [isdict |-> TRUE, command |-> command, logic |-> logic, value |-> value]

_has_direct_address_AnyIdx(pool, chan, idx) ==
    pool.t = "str" /\ chan.t = "str" /\ idx.t # "none"

_has_direct_address(pool, chan, idx) ==
    pool.t = "str" /\ chan.t = "str" /\ idx.t \in {"int", "bool"}

\* str(mapping.get("component_type") if isinstance(mapping, dict) else "")
ComponentTypeText(mapping) ==
    IF mapping.isdict THEN PyStrOf(mapping.component_type) ELSE <<>>

\* the token a rule value is compared by, lines 100-106 ({} when none is added)
RuleValueTokens(value) ==
    CASE value.t = "bool" ->
            {IF value.n = 1 THEN <<"t", "r", "u", "e">> ELSE <<"f", "a", "l", "s", "e">>}
      [] value.t \in {"int", "float"} ->
            {IF value.d = 1 THEN IntDigits(value.n) ELSE Lower(PyStrOf(value))}
      [] value.t = "str" -> {Lower(Strip(value.s))}
      [] OTHER -> {}

_is_switch_like_command(mapping) ==
    IF ~mapping.isdict THEN FALSE
    ELSE IF mapping.command_rules.kind # "list" \/ mapping.command_rules.items = <<>>
    THEN FALSE
    ELSE LET rules == mapping.command_rules.items
             dicts == {i \in 1..Len(rules) : rules[i].isdict}
             logic_tags == {Lower(Strip(rules[i].logic.s)) :
                              i \in {j \in dicts : /\ rules[j].logic.t = "str"
                                                   /\ Strip(rules[j].logic.s) # <<>>}}
             raw_values == UNION {RuleValueTokens(rules[i].value) : i \in dicts}
         IN  IF {<<"o", "n">>, <<"o", "f", "f">>} \subseteq logic_tags
             THEN TRUE
             ELSE raw_values # {} /\ raw_values \subseteq _SWITCHISH_RULE_VALUES

_is_exposable_descriptor_AddressWins(writable, pool, chan, idx, mapping) ==
    LET component_type == Lower(Strip(ComponentTypeText(mapping)))
    IN  IF _has_direct_address(pool, chan, idx) THEN TRUE
        ELSE IF /\ component_type # <<>>
                /\ \E marker \in _NON_ENTITY_COMPONENT_MARKERS :
                        Contains(component_type, marker)
        THEN FALSE
        ELSE writable

_is_exposable_descriptor(writable, pool, chan, idx, mapping) ==
    LET component_type == Lower(Strip(ComponentTypeText(mapping)))
    IN  IF /\ component_type # <<>>
           /\ \E marker \in _NON_ENTITY_COMPONENT_MARKERS :
                   Contains(component_type, marker)
        THEN FALSE
        ELSE writable \/ _has_direct_address(pool, chan, idx)

_infer_platform_NumberBeforeButton(writable, mapping, minimum, maximum, symbol, chan, has_direct_address) ==
    LET symbol_norm == Upper(symbol)
        component_type == Lower(ComponentTypeText(mapping))
    IN  IF \/ PyEq(chan, PyStr(<<"s">>))
           \/ StartsWith(symbol_norm, <<"S", "T", "A", "T", "U", "S", "_">>)
           \/ Contains(component_type, <<"s", "t", "a", "t", "u", "s">>)
        THEN "binary_sensor"
        ELSE IF ~writable THEN "sensor"
        ELSE IF mapping.isdict /\ mapping.values.kind = "list" /\ mapping.values.items # <<>>
        THEN "select"
        ELSE IF IsNumber(minimum) /\ IsNumber(maximum) THEN "number"
        ELSE IF \/ Contains(component_type, <<"b", "u", "t", "t", "o", "n">>)
                \/ Contains(component_type, <<"a", "c", "t", "i", "o", "n">>)
        THEN "button"
        ELSE IF ~has_direct_address THEN "button"
        ELSE "switch"

_infer_platform_SensorFirst(writable, mapping, minimum, maximum, symbol, chan, has_direct_address) ==
    LET symbol_norm == Upper(symbol)
        component_type == Lower(ComponentTypeText(mapping))
    IN  IF ~writable THEN "sensor"
        ELSE IF \/ PyEq(chan, PyStr(<<"s">>))
                \/ StartsWith(symbol_norm, <<"S", "T", "A", "T", "U", "S", "_">>)
                \/ Contains(component_type, <<"s", "t", "a", "t", "u", "s">>)
        THEN "binary_sensor"
        ELSE IF mapping.isdict /\ mapping.values.kind = "list" /\ mapping.values.items # <<>>
        THEN "select"
        ELSE IF \/ Contains(component_type, <<"b", "u", "t", "t", "o", "n">>)
                \/ Contains(component_type, <<"a", "c", "t", "i", "o", "n">>)
        THEN "button"
        ELSE IF ~has_direct_address THEN "button"
        ELSE IF IsNumber(minimum) /\ IsNumber(maximum) THEN "number"
        ELSE "switch"

_infer_platform_AddressLast(writable, mapping, minimum, maximum, symbol, chan, has_direct_address) ==
    LET symbol_norm == Upper(symbol)
        component_type == Lower(ComponentTypeText(mapping))
    IN  IF \/ PyEq(chan, PyStr(<<"s">>))
           \/ StartsWith(symbol_norm, <<"S", "T", "A", "T", "U", "S", "_">>)
           \/ Contains(component_type, <<"s", "t", "a", "t", "u", "s">>)
        THEN "binary_sensor"
        ELSE IF ~writable THEN "sensor"
        ELSE IF mapping.isdict /\ mapping.values.kind = "list" /\ mapping.values.items # <<>>
        THEN "select"
        ELSE IF \/ Contains(component_type, <<"b", "u", "t", "t", "o", "n">>)
                \/ Contains(component_type, <<"a", "c", "t", "i", "o", "n">>)
        THEN "button"
        ELSE IF IsNumber(minimum) /\ IsNumber(maximum) THEN "number"
        ELSE IF ~has_direct_address THEN "button"
        ELSE "switch"

_infer_platform(writable, mapping, minimum, maximum, symbol, chan, has_direct_address) ==
    LET symbol_norm == Upper(symbol)
        component_type == Lower(ComponentTypeText(mapping))
    IN  IF \/ PyEq(chan, PyStr(<<"s">>))
           \/ StartsWith(symbol_norm, <<"S", "T", "A", "T", "U", "S", "_">>)
           \/ Contains(component_type, <<"s", "t", "a", "t", "u", "s">>)
        THEN "binary_sensor"
        ELSE IF ~writable THEN "sensor"
        ELSE IF mapping.isdict /\ mapping.values.kind = "list" /\ mapping.values.items # <<>>
        THEN "select"
        ELSE IF \/ Contains(component_type, <<"b", "u", "t", "t", "o", "n">>)
                \/ Contains(component_type, <<"a", "c", "t", "i", "o", "n">>)
        THEN "button"
        ELSE IF ~has_direct_address THEN "button"
        ELSE IF IsNumber(minimum) /\ IsNumber(maximum) THEN "number"
        ELSE IF \/ Contains(component_type, <<"s", "w", "i", "t", "c", "h">>)
                \/ Contains(component_type, <<"t", "o", "g", "g", "l", "e">>)
                \/ _is_switch_like_command(mapping)
        THEN "switch"
        ELSE "switch"

IsDigits(text) == text # <<>> /\ \A i \in 1..Len(text) : IndexIn(text[i], DigitChars) > 0

Unsigned(text) ==
    IF text # <<>> /\ text[1] \in {"+", "-"} THEN SubSeq(text, 2, Len(text)) ELSE text

TextSign(text) == IF text # <<>> /\ text[1] = "-" THEN -1 ELSE 1

RECURSIVE ParseNat(_)
ParseNat(text) ==
    IF text = <<>> THEN 0
    ELSE 10 * ParseNat(SubSeq(text, 1, Len(text) - 1)) + (IndexIn(text[Len(text)], DigitChars) - 1)

\* int(text) succeeds: an optional sign and decimal digits
IsIntText(text) == IsDigits(Unsigned(text))

\* float(text) succeeds: an optional sign, digits with one decimal point
\* (exponents and "inf" are outside the modelled texts)
IsFloatText(text) ==
    LET body == Unsigned(text)
        dots == {i \in 1..Len(body) : body[i] = "."}
    IN  \/ IsDigits(body)
        \/ /\ Cardinality(dots) = 1
           /\ Len(body) > 1
           /\ LET dot == CHOOSE i \in dots : TRUE
              IN  \A i \in 1..Len(body) : i # dot => IndexIn(body[i], DigitChars) > 0

\* float(text) is NaN: an optional sign and "nan" in any case
IsNaNText(text) == Lower(Unsigned(text)) = <<"n", "a", "n">>

ParseFloat(text) ==
    LET body == Unsigned(text)
        dots == {i \in 1..Len(body) : body[i] = "."}
    IN  IF dots = {} THEN PyFloat(TextSign(text) * ParseNat(body), 1)
        ELSE LET dot == CHOOSE i \in dots : TRUE
                 digits == SubSeq(body, 1, dot - 1) \o SubSeq(body, dot + 1, Len(body))
             IN  PyFloat(TextSign(text) * ParseNat(digits), Pow10(Len(body) - dot))

_coerce_raw(value) ==
    IF value.t = "bool" THEN value
    ELSE IF value.t \in {"int", "float"} THEN value
    ELSE LET text == Strip(PyStrOf(value))
         IN  IF Lower(text) \in {<<"t", "r", "u", "e">>, <<"f", "a", "l", "s", "e">>}
             THEN PyBool(Lower(text) = <<"t", "r", "u", "e">>)
             ELSE IF IsIntText(text) THEN PyInt(TextSign(text) * ParseNat(Unsigned(text)))
             ELSE IF IsFloatText(text) THEN ParseFloat(text)
             ELSE IF IsNaNText(text) THEN PyNaN
             ELSE PyStr(text)

SetEnum_AlwaysAppend(enum_map, label, raw) ==
    Append(enum_map, [label |-> label, raw |-> raw])

\* enum_map[label] = raw: a present key keeps its place and takes the new value
SetEnum(enum_map, label, raw) ==
    IF \E i \in 1..Len(enum_map) : enum_map[i].label = label
    THEN [i \in 1..Len(enum_map) |->
            IF enum_map[i].label = label THEN [label |-> label, raw |-> raw]
            ELSE enum_map[i]]
    ELSE Append(enum_map, [label |-> label, raw |-> raw])

\* raw_to_label[key] = label
SetLabel(raw_to_label, key, label) ==
    IF \E i \in 1..Len(raw_to_label) : raw_to_label[i].key = key
    THEN [i \in 1..Len(raw_to_label) |->
            IF raw_to_label[i].key = key THEN [key |-> key, label |-> label]
            ELSE raw_to_label[i]]
    ELSE Append(raw_to_label, [key |-> key, label |-> label])

\* units_source.get(key): keys match by hash and ==
UnitsGet(units_source, key) ==
    IF \E i \in 1..Len(units_source) : PyEq(units_source[i].key, key)
    THEN units_source[CHOOSE i \in 1..Len(units_source) : PyEq(units_source[i].key, key)].label
    ELSE None

\* the (label, coerced raw) of one raw value of mapping.values, lines 179-183
LabelledValue(units_source, raw) ==
    LET first == UnitsGet(units_source, raw)
        label_raw == IF first.t = "none" THEN UnitsGet(units_source, PyStr(PyStrOf(raw)))
                     ELSE first
    IN  [label |-> IF label_raw.t # "none" THEN Strip(PyStrOf(label_raw))
                   ELSE Strip(PyStrOf(raw)),
         raw |-> _coerce_raw(raw)]

\* the (label, coerced raw) the loops of _enum_maps visit, in order
EnumPairs(mapping) ==
    LET units_source == mapping.units_source
        values == mapping.values
    IN  IF units_source.kind = "mapping"
        THEN IF values.kind = "list" /\ values.items # <<>>
             THEN [i \in 1..Len(values.items) |->
                    LabelledValue(units_source.items, values.items[i])]
             ELSE [i \in 1..Len(units_source.items) |->
                    [label |-> Strip(PyStrOf(units_source.items[i].label)),
                     raw |-> _coerce_raw(units_source.items[i].key)]]
        ELSE IF values.kind = "list"
        THEN [i \in 1..Len(values.items) |->
                [label |-> Strip(PyStrOf(values.items[i])),
                 raw |-> _coerce_raw(values.items[i])]]
        ELSE <<>>

RECURSIVE FoldEnum(_, _, _)
FoldEnum(pairs, i, acc) ==
    IF i > Len(pairs) THEN acc
    ELSE IF pairs[i].label = <<>> THEN FoldEnum(pairs, i + 1, acc)
    ELSE FoldEnum(pairs, i + 1,
            [enum_map |-> SetEnum(acc.enum_map, pairs[i].label, pairs[i].raw),
             raw_to_label |-> SetLabel(acc.raw_to_label, PyStrOf(pairs[i].raw),
                                       pairs[i].label)])

\* units_source.get(raw) raises TypeError for a raw that is not hashable
\* (line 180: units_source is a Mapping and values a non-empty list)
EnumMapsRaises(mapping) ==
    /\ mapping.isdict
    /\ mapping.units_source.kind = "mapping"
    /\ mapping.values.kind = "list"
    /\ \E i \in 1..Len(mapping.values.items) : ~Hashable(mapping.values.items[i])

_enum_maps(mapping) ==
    IF ~mapping.isdict THEN [enum_map |-> <<>>, raw_to_label |-> <<>>]
    ELSE FoldEnum(EnumPairs(mapping), 1, [enum_map |-> <<>>, raw_to_label |-> <<>>])

_extract_options(mapping) ==
    LET enum_map == _enum_maps(mapping).enum_map
    IN  [i \in 1..Len(enum_map) |-> enum_map[i].label]

\* an entity descriptor (EntityDescriptor); isdict is FALSE for a list item
\* that is no dict, platform "" and empty tables stand for absent keys
Descriptor(symbol, pool, chan, idx, minimum, maximum, mapping, writable) ==
    [isdict |-> TRUE, symbol |-> symbol, pool |-> pool, chan |-> chan, idx |-> idx,
     min |-> minimum, max |-> maximum, mapping |-> mapping, writable |-> writable,
     platform |-> "", options |-> <<>>, enum_map |-> <<>>, raw_to_label |-> <<>>]

NotADict ==
    [isdict |-> FALSE, symbol |-> None, pool |-> None, chan |-> None, idx |-> None,
     min |-> None, max |-> None, mapping |-> NoDictMapping, writable |-> None,
     platform |-> "", options |-> <<>>, enum_map |-> <<>>, raw_to_label |-> <<>>]

\* str(descriptor.get("symbol") or "")
SymbolText(descriptor) ==
    IF Truthy(descriptor.symbol) THEN PyStrOf(descriptor.symbol) ELSE <<>>

\* bool(mapping and mapping.get("command_rules"))
HasCommandRules(mapping) ==
    /\ mapping.isdict
    /\ mapping.command_rules.kind # "none"
    /\ mapping.command_rules.items # <<>>

\* bool(descriptor.get("writable")) or bool(mapping and mapping.get("command_rules"))
NormalizedWritable(descriptor) ==
    Truthy(descriptor.writable) \/ HasCommandRules(descriptor.mapping)

NormalizeOne_OptionsFromPairs(descriptor) ==
    LET writable == NormalizedWritable(descriptor)
        maps == _enum_maps(descriptor.mapping)
        pairs == IF descriptor.mapping.isdict THEN EnumPairs(descriptor.mapping) ELSE <<>>
    IN  [descriptor EXCEPT
            !.writable = PyBool(writable),
            !.options = [i \in 1..Len(pairs) |-> pairs[i].label],
            !.enum_map = maps.enum_map,
            !.raw_to_label = maps.raw_to_label,
            !.platform = _infer_platform(writable, descriptor.mapping,
                            descriptor.min, descriptor.max, SymbolText(descriptor),
                            descriptor.chan,
                            _has_direct_address(descriptor.pool, descriptor.chan,
                                                descriptor.idx))]

\* lines 282-298 for one descriptor that passed the filter
NormalizeOne(descriptor) ==
    LET writable == NormalizedWritable(descriptor)
        maps == _enum_maps(descriptor.mapping)
    IN  [descriptor EXCEPT
            !.writable = PyBool(writable),
            !.options = [i \in 1..Len(maps.enum_map) |-> maps.enum_map[i].label],
            !.enum_map = maps.enum_map,
            !.raw_to_label = maps.raw_to_label,
            !.platform = _infer_platform(writable, descriptor.mapping,
                            descriptor.min, descriptor.max, SymbolText(descriptor),
                            descriptor.chan,
                            _has_direct_address(descriptor.pool, descriptor.chan,
                                                descriptor.idx))]

\* lines 271-283: the descriptor is kept
NormalizeKeeps(descriptor) ==
    /\ descriptor.isdict
    /\ _is_exposable_descriptor(NormalizedWritable(descriptor), descriptor.pool,
                                descriptor.chan, descriptor.idx, descriptor.mapping)

RECURSIVE NormalizeFrom(_, _)
NormalizeFrom(raw, i) ==
    IF i > Len(raw) THEN <<>>
    ELSE IF NormalizeKeeps(raw[i])
    THEN <<NormalizeOne(raw[i])>> \o NormalizeFrom(raw, i + 1)
    ELSE NormalizeFrom(raw, i + 1)

normalize_cached_descriptors(raw) == NormalizeFrom(raw, 1)

\* the loop reaches _enum_maps (line 285) with a mapping it raises for
NormalizeRaises(raw) ==
    \E i \in 1..Len(raw) : NormalizeKeeps(raw[i]) /\ EnumMapsRaises(raw[i].mapping)

\* async_build_bootstrap_payload, lines 445-495, for the payload of one symbol
BootstrapWritable(payload) == HasCommandRules(payload.mapping)

BootstrapKeeps(payload) ==
    _is_exposable_descriptor(BootstrapWritable(payload), payload.pool, payload.chan,
                             payload.idx, payload.mapping)

BootstrapOne(payload) ==
    LET writable == BootstrapWritable(payload)
        maps == _enum_maps(payload.mapping)
    IN  [payload EXCEPT
            !.writable = PyBool(writable),
            !.options = _extract_options(payload.mapping),
            !.enum_map = maps.enum_map,
            !.raw_to_label = maps.raw_to_label,
            !.platform = _infer_platform(writable, payload.mapping, payload.min,
                            payload.max, PyStrOf(payload.symbol), payload.chan,
                            _has_direct_address(payload.pool, payload.chan,
                                                payload.idx))]

RECURSIVE BootstrapFrom(_, _)
BootstrapFrom(payloads, i) ==
    IF i > Len(payloads) THEN <<>>
    ELSE IF BootstrapKeeps(payloads[i])
    THEN <<BootstrapOne(payloads[i])>> \o BootstrapFrom(payloads, i + 1)
    ELSE BootstrapFrom(payloads, i + 1)

\* the descriptors the bootstrap emits for the payloads, in visiting order
BootstrapDescriptors(payloads) == BootstrapFrom(payloads, 1)

\* the loop reaches _enum_maps (line 482) with a mapping it raises for
BootstrapRaises(payloads) ==
    \E i \in 1..Len(payloads) :
        BootstrapKeeps(payloads[i]) /\ EnumMapsRaises(payloads[i].mapping)

(* ------------------------- inputs of the calls ------------------------ *)

sEco == <<"E", "c", "o">>

sComfort == <<"C", "o", "m", "f", "o", "r", "t">>

sBoost == <<"B", "o", "o", "s", "t">>

sTurbo == <<"T", "u", "r", "b", "o">>

sP4v1 == <<"P", "4", ".", "v", "1">>

Labels == {sEco, sComfort, sBoost}

RawValues == {PyInt(1), PyInt(2), PyBool(TRUE), PyStr(sEco), PyFloat(20, 1)}

CtxLabels == {sEco, sComfort}

CtxRawValues == {PyInt(2), PyBool(TRUE), PyStr(sEco)}

DisplayValues ==
    {PyInt(0), PyInt(1), PyInt(2), PyFloat(20, 1), PyBool(TRUE),
     PyStr(sEco), PyStr(sTurbo)}

\* dicts of at most maxLen entries, labels pairwise different
Mappings(labels, raws, maxLen) ==
    UNION {{m \in [1..k -> [label : labels, raw : raws]] :
                \A i, j \in 1..k : m[i].label = m[j].label => i = j}
           : k \in 0..maxLen}

NoMapping == [some |-> FALSE, m |-> <<>>]

SomeMapping(m) == [some |-> TRUE, m |-> m]

NoTransform == [some |-> FALSE, scale |-> PyFloat(1, 1), offset |-> PyFloat(0, 1)]

NumericTransform(scale, offset) == [some |-> TRUE, scale |-> scale, offset |-> offset]

Scales == {PyFloat(0, 1), PyFloat(1, 10), PyFloat(2, 1)}

Offsets == {PyFloat(0, 1), PyFloat(1, 1)}

Transforms == {NoTransform} \cup {NumericTransform(sc, off) : sc \in Scales, off \in Offsets}

RawMins == {None, PyInt(0), PyInt(10)}

RawMaxs == {None, PyInt(10), PyInt(100), PyInt(400)}

WriteContext(addr, rule, mapping, transform, rmin, rmax) ==
    [symbol |-> sP4v1, has_parameter_address |-> addr, has_command_rule |-> rule,
     enum_mapping |-> mapping, transform |-> transform,
     raw_min |-> rmin, raw_max |-> rmax]

EnumCallContexts ==
    {WriteContext(FALSE, FALSE, SomeMapping(m), NoTransform, None, None)
        : m \in Mappings(Labels, RawValues, MaxMapLen)}

RouteCallContexts ==
    {WriteContext(a, r, NoMapping, NoTransform, None, None) : a, r \in BOOLEAN}

PrepareContexts ==
    {WriteContext(a, r, em, tr, lo, hi) :
        a \in BOOLEAN, r \in BOOLEAN,
        em \in {NoMapping} \cup
               {SomeMapping(m) : m \in Mappings(CtxLabels, CtxRawValues, MaxCtxMapLen)},
        tr \in Transforms, lo \in RawMins, hi \in RawMaxs}

NoOutcome == [kind |-> "none", val |-> None, err |-> NoErr]

NoPrepared == [symbol |-> <<>>, input_display_value |-> None,
               raw_value |-> None, route |-> ""]

PreparedWrite(symbol, input, raw, r) ==
    [symbol |-> symbol, input_display_value |-> input, raw_value |-> raw, route |-> r]

(* ------------------------------ actions ------------------------------- *)

InitWrite ==
    /\ \/ fn = "enum_display_to_raw"
          /\ input_display_value \in DisplayValues
          /\ context \in EnumCallContexts
       \/ fn = "enum_raw_to_display"
          /\ input_display_value \in DisplayValues
          /\ context \in EnumCallContexts
       \/ fn = "select_command_route"
          /\ input_display_value = None
          /\ context \in RouteCallContexts
       \/ fn = "prepare_write"
          /\ input_display_value \in DisplayValues
          /\ context \in PrepareContexts
    /\ pc = "Input"
    /\ converted_value = input_display_value
    /\ numeric_raw_value = None
    /\ route = ""
    /\ outcome = NoOutcome
    /\ prepared = NoPrepared

Finish(result) ==
    /\ pc' = IF result.ok THEN "Returned" ELSE "Raised"
    /\ outcome' = [kind |-> IF result.ok THEN "return" ELSE "raise",
                   val |-> result.val, err |-> result.err]

CallEnumDisplayToRaw ==
    /\ fn = "enum_display_to_raw" /\ pc = "Input"
    /\ Finish(enum_display_to_raw(input_display_value, context.enum_mapping.m))
    /\ UNCHANGED <<fn, input_display_value, context, converted_value,
                   numeric_raw_value, route, prepared>>

CallEnumRawToDisplay ==
    /\ fn = "enum_raw_to_display" /\ pc = "Input"
    /\ Finish(Return(enum_raw_to_display(input_display_value, context.enum_mapping.m)))
    /\ UNCHANGED <<fn, input_display_value, context, converted_value,
                   numeric_raw_value, route, prepared>>

CallSelectCommandRoute ==
    /\ fn = "select_command_route" /\ pc = "Input"
    /\ LET r == select_command_route(context.has_parameter_address,
                                     context.has_command_rule)
       IN  /\ route' = r.route
           /\ Finish([ok |-> r.ok, val |-> None, err |-> r.err])
    /\ UNCHANGED <<fn, input_display_value, context, converted_value,
                   numeric_raw_value, prepared>>

\* prepare_write, lines 116-118
PrepareWriteEnum ==
    /\ fn = "prepare_write" /\ pc = "Input"
    /\ IF context.enum_mapping.some
       THEN LET r == enum_display_to_raw(input_display_value, context.enum_mapping.m)
            IN  IF r.ok
                THEN /\ converted_value' = r.val
                     /\ pc' = "EnumResolved"
                     /\ UNCHANGED outcome
                ELSE /\ Finish(r)
                     /\ UNCHANGED converted_value
       ELSE /\ pc' = "EnumResolved"
            /\ UNCHANGED <<converted_value, outcome>>
    /\ UNCHANGED <<fn, input_display_value, context, numeric_raw_value, route, prepared>>

\* prepare_write, lines 120-124
PrepareWriteTransform ==
    /\ fn = "prepare_write" /\ pc = "EnumResolved"
    /\ IF IsNumericNotBool(converted_value)
       THEN IF context.transform.some
            THEN LET r == _inverse_transform(converted_value, context.transform)
                 IN  IF r.ok
                     THEN /\ numeric_raw_value' = r.val
                          /\ pc' = "NumericTransformed"
                          /\ UNCHANGED outcome
                     ELSE /\ Finish(r)
                          /\ UNCHANGED numeric_raw_value
            ELSE /\ numeric_raw_value' = converted_value
                 /\ pc' = "NumericTransformed"
                 /\ UNCHANGED outcome
       ELSE /\ pc' = "NumericTransformed"
            /\ UNCHANGED <<numeric_raw_value, outcome>>
    /\ UNCHANGED <<fn, input_display_value, context, converted_value, route, prepared>>

PrepareWriteBounds_RouteFirst ==
    /\ fn = "prepare_write" /\ pc = "NumericTransformed"
    /\ LET r == select_command_route(context.has_parameter_address,
                                     context.has_command_rule)
           b == _validate_raw_bounds(numeric_raw_value, context.raw_min,
                                     context.raw_max)
       IN  IF ~r.ok
           THEN /\ Finish([ok |-> FALSE, val |-> None, err |-> r.err])
                /\ UNCHANGED converted_value
           ELSE IF IsNumericNotBool(converted_value) /\ ~b.ok
           THEN /\ Finish(b)
                /\ UNCHANGED converted_value
           ELSE /\ converted_value' = IF IsNumericNotBool(converted_value)
                                      THEN numeric_raw_value ELSE converted_value
                /\ pc' = "BoundsChecked"
                /\ UNCHANGED outcome
    /\ UNCHANGED <<fn, input_display_value, context, numeric_raw_value, route, prepared>>

\* prepare_write, lines 125-131
PrepareWriteBounds ==
    /\ fn = "prepare_write" /\ pc = "NumericTransformed"
    /\ IF IsNumericNotBool(converted_value)
       THEN LET r == _validate_raw_bounds(numeric_raw_value, context.raw_min,
                                          context.raw_max)
            IN  IF r.ok
                THEN /\ converted_value' = numeric_raw_value
                     /\ pc' = "BoundsChecked"
                     /\ UNCHANGED outcome
                ELSE /\ Finish(r)
                     /\ UNCHANGED converted_value
       ELSE /\ pc' = "BoundsChecked"
            /\ UNCHANGED <<converted_value, outcome>>
    /\ UNCHANGED <<fn, input_display_value, context, numeric_raw_value, route, prepared>>

\* prepare_write, lines 133-136
PrepareWriteRoute ==
    /\ fn = "prepare_write" /\ pc = "BoundsChecked"
    /\ LET r == select_command_route(context.has_parameter_address,
                                     context.has_command_rule)
       IN  IF r.ok
           THEN /\ route' = r.route
                /\ pc' = "RouteSelected"
                /\ UNCHANGED outcome
           ELSE /\ Finish([ok |-> FALSE, val |-> None, err |-> r.err])
                /\ UNCHANGED route
    /\ UNCHANGED <<fn, input_display_value, context, converted_value,
                   numeric_raw_value, prepared>>

\* prepare_write, lines 146-151
PrepareWriteReturn ==
    /\ fn = "prepare_write" /\ pc = "RouteSelected"
    /\ prepared' = PreparedWrite(context.symbol, input_display_value,
                                 converted_value, route)
    /\ pc' = "Prepared"
    /\ outcome' = [kind |-> "return", val |-> None, err |-> NoErr]
    /\ UNCHANGED <<fn, input_display_value, context, converted_value,
                   numeric_raw_value, route>>

sStatusP1 == <<"S", "T", "A", "T", "U", "S", "_", "P", "1">>

sStatusX == <<"s", "t", "a", "t", "u", "s", "_", "x">>

sParamP41 == <<"P", "A", "R", "A", "M", "_", "P", "4", "_", "1">>

sMode == <<"M", "O", "D", "E">>

sP4 == <<"P", "4">>

sChanS == <<"s">>

sChanV == <<"v">>

sOne == <<"1">>

sZero == <<"0">>

sTwo == <<"2">>

sOff == <<"O", "f", "f">>

sPassword == <<"P", "a", "s", "s", "w", "o", "r", "d">>

sSubMenu == <<"s", "u", "b", "M", "E", "N", "U">>

sView == <<" ", "V", "i", "e", "w", " ">>

sSeparator == <<"s", "e", "p", "a", "r", "a", "t", "o", "r">>

sTitle == <<"T", "i", "t", "l", "e">>

sStatusView == <<"s", "t", "a", "t", "u", "s", "_", "v", "i", "e", "w">>

sStatus == <<"S", "t", "a", "t", "u", "s">>

sButton == <<"b", "u", "t", "t", "o", "n">>

sAction == <<"A", "c", "t", "i", "o", "n">>

sSwitch == <<"s", "w", "i", "t", "c", "h">>

sNumber == <<"n", "u", "m", "b", "e", "r">>

sOn == <<"o", "n">>

sOffLogic == <<"o", "f", "f">>

sTurnOn == <<"t", "u", "r", "n", "O", "n">>

sTurnOff == <<"t", "u", "r", "n", "O", "f", "f">>

sSetMode == <<"s", "e", "t", "M", "o", "d", "e">>

sSyncNow == <<"s", "y", "n", "c", "N", "o", "w">>

ComponentTypes ==
    {None, PyStr(<<>>), PyStr(sPassword), PyStr(sSubMenu), PyStr(sView),
     PyStr(sSeparator), PyStr(sTitle), PyStr(sStatusView), PyStr(sStatus),
     PyStr(sButton), PyStr(sAction), PyStr(sSwitch), PyStr(sNumber)}

Symbols == {PyStr(sStatusP1), PyStr(sStatusX), PyStr(sParamP41)}

Pools == {None, PyStr(sP4)}

Chans == {None, PyStr(sChanS), PyStr(sChanV)}

Idxs == {None, PyInt(1), PyStr(sOne)}

MinMaxs ==
    {<<None, None>>, <<PyInt(0), PyInt(10)>>, <<PyInt(0), None>>,
     <<PyStr(sZero), PyFloat(21, 2)>>}

ModeUnits ==
    MappingOf(<<[key |-> PyStr(sZero), label |-> PyStr(sOff)],
                [key |-> PyStr(sOne), label |-> PyStr(sEco)],
                [key |-> PyStr(sTwo), label |-> PyStr(sBoost)]>>)

\* (values, units_source) of a mapping
ValueTables ==
    {<<Missing, Missing>>, <<ListOf(<<>>), Missing>>,
     <<ListOf(<<PyInt(0), PyInt(1), PyInt(2)>>), ModeUnits>>}

OnOffRules ==
    ListOf(<<CommandRule(PyStr(sTurnOn), PyStr(sOn), PyInt(1)),
             CommandRule(PyStr(sTurnOff), PyStr(sOffLogic), PyInt(0))>>)

SetModeRules == ListOf(<<CommandRule(PyStr(sSetMode), None, PyInt(1))>>)

SyncRules == ListOf(<<CommandRule(PyStr(sSyncNow), None, PyInt(1))>>)

RuleLists == {Missing, OnOffRules}

DictMappings ==
    {DictMapping(ct, vt[1], rules, vt[2]) :
        ct \in ComponentTypes, vt \in ValueTables, rules \in RuleLists}

MappingInputs == {NoDictMapping} \cup DictMappings

\* every combination of the metadata of one symbol
Descriptors(writables) ==
    {Descriptor(sym, pool, chan, idx, mm[1], mm[2], mapping, w) :
        sym \in Symbols, pool \in Pools, chan \in Chans, idx \in Idxs,
        mm \in MinMaxs, mapping \in MappingInputs, w \in writables}

\* the descriptors of tests/test_bootstrap_classification.py and variants
EmptyDict == DictMapping(None, Missing, Missing, Missing)

InternalToken ==
    Descriptor(PyStr(sStatusX), None, None, None, None, None, EmptyDict, PyBool(FALSE))

ParamP41 ==
    Descriptor(PyStr(sParamP41), PyStr(sP4), PyStr(sChanV), PyInt(1), None, None,
               EmptyDict, PyBool(FALSE))

StatusChannel ==
    Descriptor(PyStr(sParamP41), PyStr(sP4), PyStr(sChanS), PyInt(1), None, None,
               EmptyDict, PyBool(FALSE))

ModeSelect ==
    Descriptor(PyStr(sMode), PyStr(sP4), PyStr(sChanV), PyInt(1), None, None,
               DictMapping(None, ListOf(<<PyInt(0), PyInt(1), PyInt(2)>>),
                           SetModeRules, ModeUnits),
               PyBool(TRUE))

PumpEnable ==
    Descriptor(PyStr(sParamP41), PyStr(sP4), PyStr(sChanV), PyInt(1), None, None,
               DictMapping(None, Missing, OnOffRules, Missing), PyBool(TRUE))

SyncAction ==
    Descriptor(PyStr(sMode), None, None, None, None, None,
               DictMapping(PyStr(sAction), Missing, SyncRules, Missing), PyBool(TRUE))

PasswordField ==
    Descriptor(PyStr(sParamP41), PyStr(sP4), PyStr(sChanV), PyInt(1), PyInt(0), PyInt(10),
               DictMapping(PyStr(sPassword), Missing, SetModeRules, Missing),
               PyBool(TRUE))

\* a descriptor cached by an earlier version: stored as a read-only sensor
StaleCached ==
    [Descriptor(PyStr(sParamP41), PyStr(sP4), PyStr(sChanV), PyInt(1), PyInt(0),
                PyInt(10), DictMapping(None, Missing, SetModeRules, Missing), None)
        EXCEPT !.platform = "sensor"]

TestDescriptors ==
    {InternalToken, ParamP41, StatusChannel, ModeSelect, PumpEnable, SyncAction,
     PasswordField, StaleCached, NotADict}

ListsOf(items, maxLen) == UNION {[1..k -> items] : k \in 0..maxLen}

NoCandidate ==
    Descriptor(None, None, None, None, None, None, NoDictMapping, None)

sNan == <<"n", "a", "n">>

sBlank == <<" ">>

sOffPadded == <<" ", "O", "f", "f">>

\* raw values of mapping.values
EnumRaws == {PyInt(0), PyInt(1), PyStr(sOne), PyStr(sNan), PyStr(sBlank)}

UnitKeys == {PyStr(sZero), PyStr(sOne), PyInt(1)}

UnitLabels == {PyStr(sOff), PyStr(sOffPadded), PyStr(<<>>)}

\* mapping.units_source: absent, or a dict (keys pairwise different)
UnitsSources ==
    {Missing} \cup
    {MappingOf(u) :
        u \in UNION {{m \in [1..k -> [key : UnitKeys, label : UnitLabels]] :
                        \A i, j \in 1..k : PyEq(m[i].key, m[j].key) => i = j}
                     : k \in 0..MaxEnumLen}}

\* mapping.values: absent, or a list
ValueLists == {Missing} \cup {ListOf(l) : l \in ListsOf(EnumRaws, MaxEnumLen)}

\* an addressed symbol with command rules and every enum table
EnumDescriptors ==
    {Descriptor(PyStr(sMode), PyStr(sP4), PyStr(sChanV), PyInt(1), None, None,
                DictMapping(None, vl, SetModeRules, us), None) :
        vl \in ValueLists, us \in UnitsSources}

\* mapping.values with an item that is a list
ListValues == ListOf(<<PyInt(1), PyList>>)

\* descriptors whose mapping.values holds a list: with and without a
\* units_source, and one the exposability filter drops
ListValueDescriptors ==
    {Descriptor(PyStr(sMode), PyStr(sP4), PyStr(sChanV), PyInt(1), None, None,
                DictMapping(ct, ListValues, SetModeRules, us), None) :
        ct \in {None, PyStr(sPassword)}, us \in {Missing, ModeUnits}}

\* cached lists: one descriptor of any metadata, or several test descriptors
CachedLists ==
    {<<d>> : d \in Descriptors({None, PyBool(TRUE)}) \cup EnumDescriptors}
        \cup ListsOf(TestDescriptors, MaxDescriptors)
        \cup ListsOf(ListValueDescriptors \cup {ParamP41}, MaxDescriptors)

\* symbol payloads of a bootstrap run; "writable" is no payload key
PayloadLists ==
    {<<d>> : d \in Descriptors({None}) \cup EnumDescriptors}
        \cup ListsOf({[d EXCEPT !.writable = None, !.platform = ""] :
                        d \in TestDescriptors \ {NotADict}}, MaxDescriptors)
        \cup ListsOf({[d EXCEPT !.writable = None] :
                        d \in ListValueDescriptors \cup {ParamP41}}, MaxDescriptors)

IdleWrite ==
    /\ fn = "none"
    /\ input_display_value = None
    /\ context = WriteContext(FALSE, FALSE, NoMapping, NoTransform, None, None)
    /\ pc = "Idle"
    /\ converted_value = None
    /\ numeric_raw_value = None
    /\ route = ""
    /\ outcome = NoOutcome
    /\ prepared = NoPrepared

IdleClassify ==
    /\ cfn = "none"
    /\ candidate = NoCandidate
    /\ descriptors_raw = <<>>
    /\ cpc = "Idle"
    /\ exposable = FALSE
    /\ platform = ""
    /\ normalized = <<>>

InitClassify ==
    /\ \/ /\ cfn = "classify"
          /\ candidate \in Descriptors({PyBool(FALSE), PyBool(TRUE)})
          /\ descriptors_raw = <<>>
       \/ /\ cfn = "normalize_cached_descriptors"
          /\ candidate = NoCandidate
          /\ descriptors_raw \in CachedLists
       \/ /\ cfn = "async_build_bootstrap_payload"
          /\ candidate = NoCandidate
          /\ descriptors_raw \in PayloadLists
    /\ cpc = "Input"
    /\ exposable = FALSE
    /\ platform = ""
    /\ normalized = <<>>

\* _is_exposable_descriptor and _infer_platform on the metadata of one symbol
Classify ==
    /\ cfn = "classify" /\ cpc = "Input"
    /\ exposable' = _is_exposable_descriptor(Truthy(candidate.writable), candidate.pool,
                        candidate.chan, candidate.idx, candidate.mapping)
    /\ platform' = _infer_platform(Truthy(candidate.writable), candidate.mapping,
                        candidate.min, candidate.max, SymbolText(candidate),
                        candidate.chan,
                        _has_direct_address(candidate.pool, candidate.chan,
                                            candidate.idx))
    /\ cpc' = "Done"
    /\ UNCHANGED <<cfn, candidate, descriptors_raw, normalized>>

NormalizeCachedDescriptors ==
    /\ cfn = "normalize_cached_descriptors" /\ cpc = "Input"
    /\ IF NormalizeRaises(descriptors_raw)
       THEN cpc' = "Raised" /\ UNCHANGED normalized
       ELSE /\ normalized' = normalize_cached_descriptors(descriptors_raw)
            /\ cpc' = "Done"
    /\ UNCHANGED <<cfn, candidate, descriptors_raw, exposable, platform>>

BuildBootstrapDescriptors ==
    /\ cfn = "async_build_bootstrap_payload" /\ cpc = "Input"
    /\ IF BootstrapRaises(descriptors_raw)
       THEN cpc' = "Raised" /\ UNCHANGED normalized
       ELSE /\ normalized' = BootstrapDescriptors(descriptors_raw)
            /\ cpc' = "Done"
    /\ UNCHANGED <<cfn, candidate, descriptors_raw, exposable, platform>>

(* ----------------------------- runtime.py ----------------------------- *)

VARIABLES wfn, write_descriptor, write_input, write_enum_mapping, command_rules,
          desired_value, wpc, selected_rule, dispatched, api_result, error

runtimeVars == <<wfn, write_descriptor, write_input, write_enum_mapping, command_rules,
                 desired_value, wpc, selected_rule, dispatched, api_result, error>>

\* prepare_write as one call: the PreparedWrite, or the WriteValidationError
prepare_write(display_value, ctx) ==
    LET resolved == IF ctx.enum_mapping.some
                    THEN enum_display_to_raw(display_value, ctx.enum_mapping.m)
                    ELSE Return(display_value)
        failed(r) == [ok |-> FALSE, err |-> r.err, prepared |-> NoPrepared]
    IN  IF ~resolved.ok THEN failed(resolved)
        ELSE LET numeric == IsNumericNotBool(resolved.val)
                 transformed == IF numeric /\ ctx.transform.some
                                THEN _inverse_transform(resolved.val, ctx.transform)
                                ELSE Return(resolved.val)
             IN  IF ~transformed.ok THEN failed(transformed)
                 ELSE LET bounds == IF numeric
                                    THEN _validate_raw_bounds(transformed.val, ctx.raw_min,
                                                              ctx.raw_max)
                                    ELSE Return(None)
                          r == select_command_route(ctx.has_parameter_address,
                                                    ctx.has_command_rule)
                      IN  IF ~bounds.ok THEN failed(bounds)
                          ELSE IF ~r.ok THEN failed(r)
                          ELSE [ok |-> TRUE, err |-> NoErr,
                                prepared |-> PreparedWrite(ctx.symbol, display_value,
                                                           transformed.val, r.route)]

\* a key the dict does not have
Absent == [t |-> "absent", n |-> 0, d |-> 1, s |-> <<>>]

\* descriptor.get(key, "")
GetOrEmpty(value) == IF value.t = "absent" THEN PyStr(<<>>) ELSE value

\* the empty rule {}: no "value" key
EmptyRule == CommandRule(None, None, Absent)

\* a list item of command_rules that is no dict
NotARule == [isdict |-> FALSE, command |-> None, logic |-> None, value |-> None]

\* str(rule.get("logic", "")).strip().lower()
LogicToken(rule) ==
    IF rule.logic.t = "none" THEN <<>> ELSE Lower(Strip(PyStrOf(rule.logic)))

\* str(value).strip().lower(); rule.get("value") of a rule without the key is None
ValueToken(value) ==
    Lower(Strip(PyStrOf(IF value.t = "absent" THEN None ELSE value)))

\* the test of one rule, lines 156-162
RuleSelected(rule, desired) ==
    \/ /\ desired.t = "bool"
       /\ \/ desired.n = 1 /\ LogicToken(rule) = <<"o", "n">>
          \/ desired.n = 0 /\ LogicToken(rule) = <<"o", "f", "f">>
    \/ ValueToken(rule.value) = ValueToken(desired)

RECURSIVE SelectFrom(_, _, _)
SelectFrom(rules, desired, i) ==
    IF i > Len(rules) THEN IF rules # <<>> THEN rules[1] ELSE EmptyRule
    ELSE IF RuleSelected(rules[i], desired) THEN rules[i]
    ELSE SelectFrom(rules, desired, i + 1)

_select_command_rule_LogicPass(rules, desired) ==
    LET byLogic == {i \in 1..Len(rules) :
                        /\ desired.t = "bool"
                        /\ LogicToken(rules[i]) =
                              (IF desired.n = 1 THEN <<"o", "n">> ELSE <<"o", "f", "f">>)}
    IN  IF byLogic # {} THEN rules[CHOOSE i \in byLogic : \A j \in byLogic : i <= j]
        ELSE SelectFrom(rules, desired, 1)

_select_command_rule(rules, desired) == SelectFrom(rules, desired, 1)

\* the dict items of command_rules, or [] when it is no list (line 120)
DictRules(rules) ==
    IF rules.kind = "list" THEN SelectSeq(rules.items, LAMBDA r : r.isdict) ELSE <<>>

\* descriptor of an entity as async_write reads it
WriteDescriptor(symbol, devid, pool, chan, idx, minimum, maximum, mapping) ==
    [symbol |-> symbol, devid |-> devid, pool |-> pool, chan |-> chan, idx |-> idx,
     min |-> minimum, max |-> maximum, mapping |-> mapping]

\* lines 91-101
ContextOf(d, enum_mapping) ==
    [symbol |-> PyStrOf(GetOrEmpty(d.symbol)),
     has_parameter_address |-> d.pool.t = "str" /\ d.chan.t = "str"
                               /\ d.idx.t \in {"int", "bool"},
     has_command_rule |-> d.mapping.isdict /\ d.mapping.command_rules.kind = "list"
                          /\ Len(d.mapping.command_rules.items) > 0,
     enum_mapping |-> enum_mapping,
     transform |-> NoTransform,
     raw_min |-> IF d.min.t \in {"int", "float", "bool"} THEN d.min ELSE None,
     raw_max |-> IF d.max.t \in {"int", "float", "bool"} THEN d.max ELSE None]

\* api.module_command_auto(devid=, pool=, parameter=, value=)
ParameterCall(devid, pool, parameter, value) ==
    [route |-> "parameter_write", devid |-> devid, pool |-> pool,
     parameter |-> parameter, command |-> <<>>, value |-> value]

\* api.module_command_auto(devid=, command=, value=)
CommandCall(devid, command, value) ==
    [route |-> "raw_command", devid |-> devid, pool |-> <<>>,
     parameter |-> <<>>, command |-> command, value |-> value]

sMod1 == <<"M", "O", "D", "1">>

sNoneText == <<"N", "o", "n", "e">>

sTruePadded == <<" ", "T", "R", "U", "E", " ">>

sOnPadded == <<" ", "O", "N", " ">>

Devids == {Absent, PyStr(<<>>), PyStr(sMod1), None}

Addresses == {<<None, None, None>>, <<PyStr(sP4), PyStr(sChanV), PyInt(1)>>}

WriteBounds == {<<None, None>>, <<PyInt(0), PyInt(10)>>}

NoCommandRules == ListOf(<<CommandRule(None, PyStr(sOn), PyInt(1))>>)

NonDictRules == ListOf(<<NotARule>>)

\* a rule without a "value" key, and one whose value is null
ValuelessRules == ListOf(<<CommandRule(PyStr(sSyncNow), None, Absent)>>)

NullValueRules == ListOf(<<CommandRule(PyStr(sSyncNow), None, None)>>)

WriteRuleLists ==
    {Missing, ListOf(<<>>), OnOffRules, SetModeRules, NoCommandRules, NonDictRules,
     ValuelessRules, NullValueRules}

WriteMappings ==
    {NoDictMapping} \cup {DictMapping(None, Missing, r, Missing) : r \in WriteRuleLists}

WriteDescriptors ==
    {WriteDescriptor(PyStr(sParamP41), devid, a[1], a[2], a[3], b[1], b[2], m) :
        devid \in Devids, a \in Addresses, b \in WriteBounds, m \in WriteMappings}

WriteInputs ==
    {PyBool(TRUE), PyBool(FALSE), PyInt(1), PyInt(20), PyStr(sEco), PyStr(sTurbo)}

WriteEnumMappings ==
    {NoMapping} \cup {SomeMapping(m) : m \in Mappings(CtxLabels, CtxRawValues, MaxCtxMapLen)}

SelectRules ==
    {CommandRule(PyStr(sTurnOn), PyStr(sOn), PyInt(1)),
     CommandRule(PyStr(sTurnOff), PyStr(sOffLogic), PyInt(0)),
     CommandRule(PyStr(sTurnOn), PyStr(sOnPadded), PyStr(sTruePadded)),
     CommandRule(PyStr(sSetMode), None, PyFloat(1, 1)),
     CommandRule(PyStr(sSetMode), None, PyBool(TRUE)),
     CommandRule(PyStr(sSyncNow), None, None),
     CommandRule(PyStr(sSyncNow), None, Absent)}

DesiredValues ==
    {PyBool(TRUE), PyBool(FALSE), PyInt(1), PyInt(0), PyFloat(1, 1),
     PyStr(sTruePadded), PyStr(sNoneText), PyStr(sEco)}

NoWriteDescriptor ==
    WriteDescriptor(Absent, Absent, None, None, None, None, None, NoDictMapping)

IdleRuntime ==
    /\ wfn = "none"
    /\ write_descriptor = NoWriteDescriptor
    /\ write_input = None
    /\ write_enum_mapping = NoMapping
    /\ command_rules = <<>>
    /\ desired_value = None
    /\ wpc = "Idle"
    /\ selected_rule = EmptyRule
    /\ dispatched = <<>>
    /\ api_result = "none"
    /\ error = ""

InitRuntime ==
    /\ \/ /\ wfn = "_select_command_rule"
          /\ command_rules \in ListsOf(SelectRules, MaxRules)
          /\ desired_value \in DesiredValues
          /\ write_descriptor = NoWriteDescriptor
          /\ write_input = None
          /\ write_enum_mapping = NoMapping
       \/ /\ wfn = "async_write"
          /\ write_descriptor \in WriteDescriptors
          /\ write_input \in WriteInputs
          /\ write_enum_mapping \in WriteEnumMappings
          /\ command_rules = <<>>
          /\ desired_value = None
    /\ wpc = "Input"
    /\ selected_rule = EmptyRule
    /\ dispatched = <<>>
    /\ api_result = "none"
    /\ error = ""

CallSelectCommandRule ==
    /\ wfn = "_select_command_rule" /\ wpc = "Input"
    /\ selected_rule' = _select_command_rule(command_rules, desired_value)
    /\ wpc' = "Returned"
    /\ UNCHANGED <<wfn, write_descriptor, write_input, write_enum_mapping, command_rules,
                   desired_value, dispatched, api_result, error>>

RaiseError(kind) ==
    /\ wpc' = "Raised"
    /\ error' = kind

AsyncWriteBegin_PreparedValue ==
    /\ wfn = "async_write" /\ wpc = "Input"
    /\ LET d == write_descriptor
           devid == PyStrOf(GetOrEmpty(d.devid))
           p == prepare_write(write_input, ContextOf(d, write_enum_mapping))
           rule == _select_command_rule(DictRules(d.mapping.command_rules),
                                        p.prepared.raw_value)
       IN  IF devid = <<>>
           THEN RaiseError("missing_device_id") /\ UNCHANGED <<selected_rule, dispatched>>
           ELSE IF ~p.ok
           THEN RaiseError(p.err.kind) /\ UNCHANGED <<selected_rule, dispatched>>
           ELSE IF p.prepared.route = "parameter_write"
           THEN /\ dispatched' = Append(dispatched,
                        ParameterCall(devid, PyStrOf(d.pool),
                                      PyStrOf(d.chan) \o PyStrOf(d.idx),
                                      p.prepared.raw_value))
                /\ wpc' = "AwaitingParameterWrite"
                /\ UNCHANGED <<selected_rule, error>>
           ELSE IF rule.command.t # "str"
           THEN /\ selected_rule' = rule
                /\ RaiseError("no_raw_command")
                /\ UNCHANGED dispatched
           ELSE /\ selected_rule' = rule
                /\ dispatched' = Append(dispatched,
                        CommandCall(devid, rule.command.s,
                                    p.prepared.raw_value))
                /\ wpc' = "AwaitingRawCommand"
                /\ UNCHANGED error
    /\ UNCHANGED <<wfn, write_descriptor, write_input, write_enum_mapping, command_rules,
                   desired_value, api_result>>

AsyncWriteBegin_NoDevidCheck ==
    /\ wfn = "async_write" /\ wpc = "Input"
    /\ LET d == write_descriptor
           devid == PyStrOf(GetOrEmpty(d.devid))
           p == prepare_write(write_input, ContextOf(d, write_enum_mapping))
           rule == _select_command_rule(DictRules(d.mapping.command_rules),
                                        p.prepared.raw_value)
       IN  IF ~p.ok
           THEN RaiseError(p.err.kind) /\ UNCHANGED <<selected_rule, dispatched>>
           ELSE IF p.prepared.route = "parameter_write"
           THEN /\ dispatched' = Append(dispatched,
                        ParameterCall(devid, PyStrOf(d.pool),
                                      PyStrOf(d.chan) \o PyStrOf(d.idx),
                                      p.prepared.raw_value))
                /\ wpc' = "AwaitingParameterWrite"
                /\ UNCHANGED <<selected_rule, error>>
           ELSE IF rule.command.t # "str"
           THEN /\ selected_rule' = rule
                /\ RaiseError("no_raw_command")
                /\ UNCHANGED dispatched
           ELSE /\ selected_rule' = rule
                /\ dispatched' = Append(dispatched,
                        CommandCall(devid, rule.command.s,
                                    IF rule.value.t = "absent"
                                    THEN p.prepared.raw_value
                                    ELSE rule.value))
                /\ wpc' = "AwaitingRawCommand"
                /\ UNCHANGED error
    /\ UNCHANGED <<wfn, write_descriptor, write_input, write_enum_mapping, command_rules,
                   desired_value, api_result>>

\* async_write up to its await (lines 80-114, 119-131)
AsyncWriteBegin ==
    /\ wfn = "async_write" /\ wpc = "Input"
    /\ LET d == write_descriptor
           devid == PyStrOf(GetOrEmpty(d.devid))
           p == prepare_write(write_input, ContextOf(d, write_enum_mapping))
           rule == _select_command_rule(DictRules(d.mapping.command_rules),
                                        p.prepared.raw_value)
       IN  IF devid = <<>>
           THEN RaiseError("missing_device_id") /\ UNCHANGED <<selected_rule, dispatched>>
           ELSE IF ~p.ok
           THEN RaiseError(p.err.kind) /\ UNCHANGED <<selected_rule, dispatched>>
           ELSE IF p.prepared.route = "parameter_write"
           THEN /\ dispatched' = Append(dispatched,
                        ParameterCall(devid, PyStrOf(d.pool),
                                      PyStrOf(d.chan) \o PyStrOf(d.idx),
                                      p.prepared.raw_value))
                /\ wpc' = "AwaitingParameterWrite"
                /\ UNCHANGED <<selected_rule, error>>
           ELSE IF rule.command.t # "str"
           THEN /\ selected_rule' = rule
                /\ RaiseError("no_raw_command")
                /\ UNCHANGED dispatched
           ELSE /\ selected_rule' = rule
                /\ dispatched' = Append(dispatched,
                        CommandCall(devid, rule.command.s,
                                    IF rule.value.t = "absent"
                                    THEN p.prepared.raw_value
                                    ELSE rule.value))
                /\ wpc' = "AwaitingRawCommand"
                /\ UNCHANGED error
    /\ UNCHANGED <<wfn, write_descriptor, write_input, write_enum_mapping, command_rules,
                   desired_value, api_result>>

\* what the awaited api.module_command_auto does: a truthy or falsy result, or
\* an exception of the client
ApiResults == {"ok", "not_ok", "raises"}

ApiReply_RawUnchecked ==
    /\ wfn = "async_write" /\ wpc \in {"AwaitingParameterWrite", "AwaitingRawCommand"}
    /\ \E result \in ApiResults :
        /\ api_result' = result
        /\ IF result = "raises" THEN RaiseError("api_error")
           ELSE IF result = "not_ok" /\ wpc = "AwaitingParameterWrite"
           THEN RaiseError("write_failed")
           ELSE wpc' = "Returned" /\ UNCHANGED error
    /\ UNCHANGED <<wfn, write_descriptor, write_input, write_enum_mapping, command_rules,
                   desired_value, selected_rule, dispatched>>

\* async_write after its await (lines 115-117, 132-133)
ApiReply ==
    /\ wfn = "async_write" /\ wpc \in {"AwaitingParameterWrite", "AwaitingRawCommand"}
    /\ \E result \in ApiResults :
        /\ api_result' = result
        /\ IF result = "raises" THEN RaiseError("api_error")
           ELSE IF result = "not_ok" THEN RaiseError("write_failed")
           ELSE wpc' = "Returned" /\ UNCHANGED error
    /\ UNCHANGED <<wfn, write_descriptor, write_input, write_enum_mapping, command_rules,
                   desired_value, selected_rule, dispatched>>

(* ----------------------------- __init__.py ---------------------------- *)

VARIABLES entry_options, entry_data, device_payloads, api_modules, setups, rebuilds,
          entry_writes, built_options, cache_source

setupVars == <<entry_options, entry_data, device_payloads, api_modules, setups, rebuilds,
               entry_writes, built_options, cache_source>>

FILTER_MODE_UI == <<"u", "i">>

FILTER_MODE_PERMISSIONS == <<"p", "e", "r", "m", "i", "s", "s", "i", "o", "n", "s">>

DEFAULT_ENTITY_FILTER_MODE == FILTER_MODE_UI

_normalize_filter_mode(value) ==
    LET mode == Lower(Strip(value))
    IN  IF mode \in {FILTER_MODE_UI, FILTER_MODE_PERMISSIONS} THEN mode
        ELSE DEFAULT_ENTITY_FILTER_MODE

\* str(mode).strip().lower() or DEFAULT_ENTITY_FILTER_MODE
FilterModeText(value) ==
    IF Lower(Strip(value)) = <<>> THEN DEFAULT_ENTITY_FILTER_MODE ELSE Lower(Strip(value))

\* {str(devid): str(mode).strip().lower() for devid, mode in source.items()}
ModuleModesText(source) == [m \in DOMAIN source |-> Lower(Strip(source[m]))]

\* list == list of enum_map dicts: same keys, values equal by ==.  The values
\* _coerce_raw makes from text are new objects, so a NaN equals no other
EnumMapEq(a, b) ==
    /\ Len(a) = Len(b)
    /\ \A i \in 1..Len(a) : \E j \in 1..Len(b) :
            a[i].label = b[j].label /\ PyEq(a[i].raw, b[j].raw)

\* dict == dict of two descriptors; a descriptor without a platform key has
\* none of the derived keys
DescriptorEq(a, b) ==
    /\ a.isdict /\ b.isdict
    /\ a.symbol = b.symbol /\ a.pool = b.pool /\ a.chan = b.chan /\ a.idx = b.idx
    /\ a.min = b.min /\ a.max = b.max /\ a.mapping = b.mapping
    /\ PyEq(a.writable, b.writable)
    /\ a.platform # "" /\ a.platform = b.platform
    /\ a.options = b.options
    /\ EnumMapEq(a.enum_map, b.enum_map)
    /\ {a.raw_to_label[i] : i \in 1..Len(a.raw_to_label)}
          = {b.raw_to_label[i] : i \in 1..Len(b.raw_to_label)}

\* normalized_descriptors == descriptors
DescriptorsEq(a, b) ==
    /\ Len(a) = Len(b)
    /\ \A k \in 1..Len(a) : DescriptorEq(a[k], b[k])

ModuleIds == {"MOD1", "MOD2"}

\* api.get_modules(object_id): the modules of the object, in the API's order
ApiModuleLists == {<<>>, <<"MOD1">>, <<"MOD2">>, <<"MOD1", "MOD2">>}

\* the module lists a flow stores: not empty
ModuleSelections == ApiModuleLists \ {<<>>}

ObjectIds == {1, 2}

FilterModes == {FILTER_MODE_UI, FILTER_MODE_PERMISSIONS}

Members(list) == {list[i] : i \in 1..Len(list)}

\* a symbol payload of the device (no "writable", no derived keys)
PayloadOf(d) == [d EXCEPT !.writable = None, !.platform = ""]

NanSelect ==
    Descriptor(PyStr(sMode), PyStr(sP4), PyStr(sChanV), PyInt(1), None, None,
               DictMapping(None, ListOf(<<PyStr(sNan), PyInt(1)>>), SetModeRules, Missing),
               None)

\* the visible symbols of one module with their details
SetupPayloads ==
    {<<PayloadOf(ParamP41)>>, <<PayloadOf(ModeSelect)>>, <<NanSelect>>,
     <<PayloadOf(InternalToken), PayloadOf(PumpEnable)>>}

\* descriptor lists cached by an earlier version of the integration
LegacyCaches == {<<StaleCached>>, <<InternalToken, ParamP41>>, <<NanSelect>>}

RECURSIVE DescriptorsOfModules(_, _)
DescriptorsOfModules(effective_modules, payloads) ==
    IF effective_modules = <<>> THEN <<>>
    ELSE BootstrapDescriptors(payloads)
            \o DescriptorsOfModules(Tail(effective_modules), payloads)

\* async_build_bootstrap_payload: the keys it returns
BootstrapPayload(all_modules, modules, entity_filter_mode, module_filter_modes, payloads) ==
    LET selected == Members(modules)
        effective_modules == SelectSeq(all_modules,
                                LAMBDA m : selected = {} \/ m \in selected)
        filter_mode == _normalize_filter_mode(entity_filter_mode)
        normalized_module_modes ==
            [m \in DOMAIN module_filter_modes |->
                _normalize_filter_mode(module_filter_modes[m])]
    IN  [entity_descriptors |-> DescriptorsOfModules(effective_modules, payloads),
         entity_filter_mode |-> filter_mode,
         module_filter_modes |->
            [m \in Members(effective_modules) |->
                IF m \in DOMAIN normalized_module_modes THEN normalized_module_modes[m]
                ELSE filter_mode]]

NoOptions ==
    [present |-> FALSE, object_id |-> 0, modules |-> <<>>,
     entity_filter_mode |-> <<>>, module_filter_modes |-> <<>>]

\* what BragerOptionsFlow.async_step_modules stores
FlowOptions(object_id, modules, modes) ==
    [present |-> TRUE, object_id |-> object_id, modules |-> modules,
     entity_filter_mode |-> modes[modules[1]], module_filter_modes |-> modes]

EntryData(object_id, modules, mode, modes, has_payload, descriptors) ==
    [object_id |-> object_id, modules |-> modules, entity_filter_mode |-> mode,
     module_filter_modes |-> modes, has_payload |-> has_payload,
     entity_descriptors |-> descriptors]

IdleSetup ==
    /\ entry_options = NoOptions
    /\ entry_data = EntryData(0, <<>>, <<>>, <<>>, FALSE, <<>>)
    /\ device_payloads = <<>>
    /\ api_modules = <<>>
    /\ setups = 0
    /\ rebuilds = 0
    /\ entry_writes = 0
    /\ built_options = [built |-> FALSE, options |-> NoOptions]
    /\ cache_source = "none"

\* an entry created by the config flow of this version (its bootstrap payload
\* is cached), or one of an earlier version (a legacy cache, or none)
InitSetup ==
    /\ entry_options = NoOptions
    /\ device_payloads \in SetupPayloads
    /\ \E modules \in ModuleSelections, mode \in FilterModes :
        \/ /\ entry_data = EntryData(1, modules, mode, [m \in Members(modules) |-> mode],
                                     TRUE, DescriptorsOfModules(modules, device_payloads))
           /\ cache_source = "bootstrap"
        \/ /\ \E cache \in LegacyCaches :
                entry_data = EntryData(1, modules, mode, [m \in Members(modules) |-> mode],
                                       TRUE, cache)
           /\ cache_source = "legacy"
        \/ /\ entry_data = EntryData(1, modules, mode, <<>>, FALSE, <<>>)
           /\ cache_source = "none"
    /\ api_modules = <<>>
    /\ setups = 0
    /\ rebuilds = 0
    /\ entry_writes = 0
    /\ built_options = [built |-> FALSE, options |-> NoOptions]

\* BragerOptionsFlow.async_step_modules: the user stores new options
OptionsFlow ==
    /\ \E object_id \in ObjectIds, modules \in ModuleSelections :
        \E modes \in [Members(modules) -> FilterModes] :
            entry_options' = FlowOptions(object_id, modules, modes)
    /\ entry_options' # entry_options
    /\ UNCHANGED <<entry_data, device_payloads, api_modules, setups, rebuilds,
                   entry_writes, built_options, cache_source>>

\* entry.options.get(key, entry.data.get(key))
OptionOrData(key) ==
    IF entry_options.present THEN entry_options[key] ELSE entry_data[key]

\* lines 99-104
options_changed ==
    \/ OptionOrData("object_id") # entry_data.object_id
    \/ OptionOrData("modules") # entry_data.modules
    \/ FilterModeText(OptionOrData("entity_filter_mode"))
          # Lower(Strip(entry_data.entity_filter_mode))
    \/ ModuleModesText(OptionOrData("module_filter_modes"))
          # ModuleModesText(entry_data.module_filter_modes)

\* lines 105-107
missing_cached_payload == ~entry_data.has_payload

SetupEntry_RebuildOnlyWhenMissing ==
    /\ setups < MaxSetups
    /\ setups' = setups + 1
    /\ IF missing_cached_payload
       THEN \E all_modules \in ApiModuleLists :
              LET payload == BootstrapPayload(all_modules, OptionOrData("modules"),
                                FilterModeText(OptionOrData("entity_filter_mode")),
                                ModuleModesText(OptionOrData("module_filter_modes")),
                                device_payloads)
              IN  /\ api_modules' = all_modules
                  /\ entry_data' = EntryData(OptionOrData("object_id"),
                                             OptionOrData("modules"),
                                             payload.entity_filter_mode,
                                             payload.module_filter_modes, TRUE,
                                             payload.entity_descriptors)
                  /\ rebuilds' = rebuilds + 1
                  /\ entry_writes' = entry_writes + 1
                  /\ built_options' = [built |-> TRUE, options |-> entry_options]
                  /\ cache_source' = "bootstrap"
       ELSE LET normalized_descriptors ==
                    normalize_cached_descriptors(entry_data.entity_descriptors)
            IN  IF ~DescriptorsEq(normalized_descriptors, entry_data.entity_descriptors)
                THEN /\ entry_data' = [entry_data EXCEPT
                                          !.entity_descriptors = normalized_descriptors]
                     /\ entry_writes' = entry_writes + 1
                     /\ cache_source' = "normalize"
                     /\ UNCHANGED <<api_modules, rebuilds, built_options>>
                ELSE UNCHANGED <<entry_data, api_modules, rebuilds, entry_writes,
                                 built_options, cache_source>>
    /\ UNCHANGED <<entry_options, device_payloads>>

\* async_setup_entry, lines 85-147
SetupEntry ==
    /\ setups < MaxSetups
    /\ setups' = setups + 1
    /\ IF options_changed \/ missing_cached_payload
       THEN \E all_modules \in ApiModuleLists :
              LET payload == BootstrapPayload(all_modules, OptionOrData("modules"),
                                FilterModeText(OptionOrData("entity_filter_mode")),
                                ModuleModesText(OptionOrData("module_filter_modes")),
                                device_payloads)
              IN  /\ api_modules' = all_modules
                  /\ entry_data' = EntryData(OptionOrData("object_id"),
                                             OptionOrData("modules"),
                                             payload.entity_filter_mode,
                                             payload.module_filter_modes, TRUE,
                                             payload.entity_descriptors)
                  /\ rebuilds' = rebuilds + 1
                  /\ entry_writes' = entry_writes + 1
                  /\ built_options' = [built |-> TRUE, options |-> entry_options]
                  /\ cache_source' = "bootstrap"
       ELSE LET normalized_descriptors ==
                    normalize_cached_descriptors(entry_data.entity_descriptors)
            IN  IF ~DescriptorsEq(normalized_descriptors, entry_data.entity_descriptors)
                THEN /\ entry_data' = [entry_data EXCEPT
                                          !.entity_descriptors = normalized_descriptors]
                     /\ entry_writes' = entry_writes + 1
                     /\ cache_source' = "normalize"
                     /\ UNCHANGED <<api_modules, rebuilds, built_options>>
                ELSE UNCHANGED <<entry_data, api_modules, rebuilds, entry_writes,
                                 built_options, cache_source>>
    /\ UNCHANGED <<entry_options, device_payloads>>

(* -------------------------- entity_common.py --------------------------- *)

\* descriptor_options: the stored options that are not blank
descriptor_options(descriptor) ==
    SelectSeq(descriptor.options, LAMBDA option : Strip(option) # <<>>)

\* descriptor_enum_map: the stored entries whose value is a bool, int, float or str
descriptor_enum_map(descriptor) ==
    SelectSeq(descriptor.enum_map,
              LAMBDA item : item.raw.t \in {"bool", "int", "float", "str"})

\* descriptor_raw_to_label: keys and labels as text
descriptor_raw_to_label(descriptor) == descriptor.raw_to_label

(* ------------------ select.py, switch.py, number.py ------------------- *)

VARIABLES ekind, entity, held, available, epc, requested

entityVars == <<ekind, entity, held, available, epc, requested>>

\* switch.py _coerce_bool
_coerce_bool(value) ==
    CASE value.t = "bool" -> value.n = 1
      [] value.t \in {"int", "float"} ->
            (IF value.n < 0 THEN -((-value.n) \div value.d) ELSE value.n \div value.d) # 0
      [] value.t = "str" ->
            Lower(Strip(value.s)) \in {<<"1">>, <<"t", "r", "u", "e">>, <<"o", "n">>,
                                       <<"e", "n", "a", "b", "l", "e", "d">>,
                                       <<"y", "e", "s">>}
      [] OTHER -> FALSE

\* self._raw_to_label.get(key)
RawToLabelGet(raw_to_label, key) ==
    IF \E i \in 1..Len(raw_to_label) : raw_to_label[i].key = key
    THEN PyStr(raw_to_label[CHOOSE i \in 1..Len(raw_to_label) :
                                raw_to_label[i].key = key].label)
    ELSE None

\* the entity an entity platform builds from one cached descriptor and the
\* device id of its module
EntityOf(descriptor, devid) ==
    [descriptor |-> WriteDescriptor(descriptor.symbol, devid, descriptor.pool,
                                    descriptor.chan, descriptor.idx, descriptor.min,
                                    descriptor.max, descriptor.mapping),
     options |-> descriptor_options(descriptor),
     enum_map |-> descriptor_enum_map(descriptor),
     raw_to_label |-> descriptor_raw_to_label(descriptor)]

\* a select whose raw values are texts: {"Comfort": "Eco", "Boost": "Boost"}
TextRawSelect ==
    Descriptor(PyStr(sMode), PyStr(sP4), PyStr(sChanV), PyInt(1), None, None,
               DictMapping(None, ListOf(<<PyStr(sEco), PyStr(sBoost)>>), SetModeRules,
                           MappingOf(<<[key |-> PyStr(sEco), label |-> PyStr(sComfort)]>>)),
               PyBool(TRUE))

\* a number with bounds 0..10
BoundedNumber ==
    Descriptor(PyStr(sParamP41), PyStr(sP4), PyStr(sChanV), PyInt(1), PyInt(0),
               PyInt(10), DictMapping(None, Missing, Missing, Missing), PyBool(TRUE))

\* the cached descriptors the entities of the model are built from
EntityDescriptors ==
    {d \in {NormalizeOne(ModeSelect), NormalizeOne(TextRawSelect),
            NormalizeOne(PumpEnable), NormalizeOne(BoundedNumber)} :
        d.platform \in {"select", "switch", "number"}}

\* the device id of the descriptor: present, or empty
EntityDevids == {PyStr(sMod1), PyStr(<<>>)}

\* the option a caller passes to async_select_option
OptionInputs == {PyStr(sEco), PyStr(sComfort), PyStr(sBoost), PyStr(sTurbo)}

\* the value a caller passes to async_set_native_value
NumberInputs == {PyFloat(5, 1), PyFloat(20, 1)}

\* what resolve_value gives: .value and .value_label
ResolvedValues ==
    [value : {None, PyInt(0), PyInt(1), PyInt(7), PyFloat(1, 2), PyStr(sEco)},
     value_label : {None, PyStr(sEco), PyStr(sComfort), PyStr(sOn)}]

IdleEntity ==
    /\ ekind = "none"
    /\ entity = EntityOf(NoCandidate, Absent)
    /\ held = None
    /\ available = FALSE
    /\ epc = "Idle"
    /\ requested = None

\* __init__ of the entity of one descriptor
InitEntity ==
    /\ \E d \in EntityDescriptors, devid \in EntityDevids :
        /\ ekind = d.platform
        /\ entity = EntityOf(d, devid)
        /\ held = CASE d.platform = "select" ->
                        IF descriptor_options(d) # <<>>
                        THEN PyStr(descriptor_options(d)[1]) ELSE None
                    [] d.platform = "switch" -> PyBool(FALSE)
                    [] OTHER -> None
    /\ available = TRUE
    /\ epc = "Idle"
    /\ requested = None

\* the handler calls self._runtime.async_write(...)
RequestWrite(input, enum_mapping) ==
    /\ epc = "Idle"
    /\ epc' = "Writing"
    /\ requested' = input
    /\ wfn' = "async_write"
    /\ write_descriptor' = entity.descriptor
    /\ write_input' = input
    /\ write_enum_mapping' = enum_mapping
    /\ wpc' = "Input"
    /\ selected_rule' = EmptyRule
    /\ dispatched' = <<>>
    /\ api_result' = "none"
    /\ error' = ""
    /\ UNCHANGED <<command_rules, desired_value, ekind, entity, held, available>>

\* BragerSymbolSelect.async_select_option, up to the call
SelectOption ==
    /\ ekind = "select"
    /\ \E option \in OptionInputs : RequestWrite(option, SomeMapping(entity.enum_map))

\* BragerSymbolSwitch.async_turn_on / async_turn_off, up to the call
TurnOnOff ==
    /\ ekind = "switch"
    /\ \E on \in BOOLEAN : RequestWrite(PyBool(on), NoMapping)

\* BragerSymbolNumber.async_set_native_value, up to the call
SetNativeValue ==
    /\ ekind = "number"
    /\ \E value \in NumberInputs : RequestWrite(value, NoMapping)

FinishWrite_OnRaiseToo ==
    /\ epc = "Writing"
    /\ IF wpc' \in {"Returned", "Raised"}
       THEN held' = requested /\ epc' = "Idle"
       ELSE UNCHANGED <<held, epc>>
    /\ UNCHANGED <<ekind, entity, available, requested>>

\* the rest of the handler: the assignment after async_write returned, or
\* nothing when it raised
FinishWrite ==
    /\ epc = "Writing"
    /\ IF wpc' = "Returned"
       THEN held' = requested /\ epc' = "Idle"
       ELSE IF wpc' = "Raised"
       THEN held' = held /\ epc' = "Idle"
       ELSE UNCHANGED <<held, epc>>
    /\ UNCHANGED <<ekind, entity, available, requested>>

\* the candidate option of BragerSymbolSelect.async_update
Candidate(resolved) ==
    LET first == IF resolved.value_label.t = "str" THEN resolved.value_label
                 ELSE RawToLabelGet(entity.raw_to_label, PyStrOf(resolved.value))
    IN  IF first.t = "none" THEN PyStrOf(resolved.value) ELSE first.s

\* async_update of the three platforms.  resolve_value raises or returns; a
\* BragerRuntime has no resolver attribute, with which only the raise occurs
AsyncUpdate ==
    /\ ekind \in {"select", "switch", "number"}
    /\ \/ /\ available' = FALSE
          /\ UNCHANGED held
       \/ \E resolved \in ResolvedValues :
             /\ available' = TRUE
             /\ held' =
                  CASE ekind = "select" ->
                          IF \E i \in 1..Len(entity.options) :
                                entity.options[i] = Candidate(resolved)
                          THEN PyStr(Candidate(resolved)) ELSE held
                    [] ekind = "switch" ->
                          PyBool(_coerce_bool(IF resolved.value_label.t # "none"
                                              THEN resolved.value_label
                                              ELSE resolved.value))
                    [] OTHER ->
                          IF IsNumericNotBool(resolved.value)
                          THEN PyFloat(resolved.value.n, resolved.value.d) ELSE held
    /\ UNCHANGED <<ekind, entity, epc, requested>>

\* ---------------------------------------------------------------------------
\* runtime.py: BragerRuntime.start, stop, add_listener, _dispatch_updates
\* ---------------------------------------------------------------------------

VARIABLES started, tasks, gateway, api_client, spc, stop_idx,
          listeners, handles, bus, published, update, pending, delivered, taken

lifecycleVars == <<started, tasks, gateway, api_client, spc, stop_idx,
                   listeners, handles, bus, published, update, pending, delivered, taken>>

MaxUpdates == 2
MaxHandles == 2

\* The entities' bound methods _on_runtime_update; they schedule a state
\* refresh and return.
Callbacks == {"cb1", "cb2"}

Task(name, state) == [name |-> name, state |-> state]

\* Position in _tasks of the update dispatch task: start() appends it
\* second.
UpdateDispatch == 2

TaskState(i) == IF i <= Len(tasks) THEN tasks[i].state ELSE "none"

\* No callback runs and no other coroutine is switched to between the
\* iterations of "for callback in tuple(self._listeners)".
LoopIdle == pending = {}

IdleLifecycle ==
    /\ started = FALSE
    /\ tasks = <<>>
    /\ gateway = "new"
    /\ api_client = "open"
    /\ spc = "idle"
    /\ stop_idx = 0
    /\ listeners = {}
    /\ handles = <<>>
    /\ bus = <<>>
    /\ published = 0
    /\ update = 0
    /\ pending = {}
    /\ delivered = [c \in Callbacks |-> <<>>]
    /\ taken = <<>>

InitLifecycle == IdleLifecycle

\* BragerRuntime.start: async_setup_entry calls it once on the runtime it
\* has just constructed.
Start ==
    /\ ~started
    /\ spc = "idle"
    /\ LoopIdle
    /\ started' = TRUE
    /\ tasks' = tasks \o <<Task("habragerone-store-sync", "running"),
                           Task("habragerone-update-dispatch", "running")>>
    /\ gateway' = "started"
    /\ UNCHANGED <<api_client, spc, stop_idx, listeners, handles, bus, published,
                   update, pending, delivered, taken>>

\* add_listener(callback): _listeners.add(callback); the returned _remove
\* closes over the callback.
AddListener ==
    /\ LoopIdle
    /\ Len(handles) < MaxHandles
    /\ \E callback \in Callbacks :
          /\ listeners' = listeners \cup {callback}
          /\ handles' = Append([i \in 1..Len(handles) |->
                                  IF handles[i].callback = callback /\ handles[i].calls > 0
                                  THEN [handles[i] EXCEPT !.renewed = TRUE]
                                  ELSE handles[i]],
                               [callback |-> callback, calls |-> 0, renewed |-> FALSE])
    /\ UNCHANGED <<started, tasks, gateway, api_client, spc, stop_idx, bus, published,
                   update, pending, delivered, taken>>

MaxCalls == 2

Remove_AnyListener(i) ==
    /\ \E callback \in listeners \cup {handles[i].callback} :
          listeners' = listeners \ {callback}
    /\ handles[i].calls < MaxCalls
    /\ handles' = [handles EXCEPT ![i].calls = @ + 1]

\* _remove(): _listeners.discard(callback).
Remove(i) ==
    /\ listeners' = listeners \ {handles[i].callback}
    /\ handles[i].calls < MaxCalls
    /\ handles' = [handles EXCEPT ![i].calls = @ + 1]

\* A call of an unsubscribe callable, the first or a later one.
Unsubscribe ==
    /\ LoopIdle
    /\ \E i \in 1..Len(handles) : Remove(i)
    /\ UNCHANGED <<started, tasks, gateway, api_client, spc, stop_idx, bus, published,
                   update, pending, delivered, taken>>

\* The gateway puts an update on its bus; the subscription of
\* _dispatch_updates queues it while that task is alive.
Publish ==
    /\ LoopIdle
    /\ gateway = "started"
    /\ published < MaxUpdates
    /\ published' = published + 1
    /\ bus' = IF TaskState(UpdateDispatch) \in {"running", "cancelling"}
              THEN Append(bus, published + 1)
              ELSE bus
    /\ UNCHANGED <<started, tasks, gateway, api_client, spc, stop_idx, listeners, handles,
                   update, pending, delivered, taken>>

TakeUpdate_WhileFanningOut ==
    /\ TaskState(UpdateDispatch) = "running"
    /\ bus # <<>>
    /\ update' = Head(bus)
    /\ bus' = Tail(bus)
    /\ pending' = listeners
    /\ taken' = Append(taken, [update |-> Head(bus), to |-> listeners])
    /\ UNCHANGED <<started, tasks, gateway, api_client, spc, stop_idx, listeners, handles,
                   published, delivered>>

\* _dispatch_updates: "async for update in self.gateway.bus.subscribe()"
\* yields the next update, and tuple(self._listeners) is taken.
TakeUpdate ==
    /\ LoopIdle
    /\ TaskState(UpdateDispatch) = "running"
    /\ bus # <<>>
    /\ update' = Head(bus)
    /\ bus' = Tail(bus)
    /\ pending' = listeners
    /\ taken' = Append(taken, [update |-> Head(bus), to |-> listeners])
    /\ UNCHANGED <<started, tasks, gateway, api_client, spc, stop_idx, listeners, handles,
                   published, delivered>>

\* _dispatch_updates: callback(update) for one callback of the tuple; the
\* order of a set's tuple is arbitrary.
InvokeCallback ==
    /\ \E callback \in pending :
          /\ delivered' = [delivered EXCEPT ![callback] = Append(@, update)]
          /\ pending' = pending \ {callback}
    /\ UNCHANGED <<started, tasks, gateway, api_client, spc, stop_idx, listeners, handles,
                   bus, published, update, taken>>

\* A background task ends by itself: store.run_with_bus or the bus
\* subscription returns ("finished") or raises ("failed").
TaskEnds ==
    /\ LoopIdle
    /\ \E i \in 1..Len(tasks), ending \in {"finished", "failed"} :
          /\ tasks[i].state = "running"
          /\ tasks' = [tasks EXCEPT ![i].state = ending]
    /\ UNCHANGED <<started, gateway, api_client, spc, stop_idx, listeners, handles, bus,
                   published, update, pending, delivered, taken>>

\* A task whose cancellation was requested receives CancelledError at its
\* await.
TaskCancelled ==
    /\ LoopIdle
    /\ \E i \in 1..Len(tasks) :
          /\ tasks[i].state = "cancelling"
          /\ tasks' = [tasks EXCEPT ![i].state = "cancelled"]
    /\ UNCHANGED <<started, gateway, api_client, spc, stop_idx, listeners, handles, bus,
                   published, update, pending, delivered, taken>>

\* stop(): "for task in self._tasks: task.cancel()"; cancel() does nothing
\* to a task that is done. async_unload_entry calls stop() on the runtime
\* async_setup_entry started.
StopCancel ==
    /\ LoopIdle
    /\ started
    /\ spc = "idle"
    /\ tasks' = [i \in 1..Len(tasks) |->
                    IF tasks[i].state = "running"
                    THEN [tasks[i] EXCEPT !.state = "cancelling"]
                    ELSE tasks[i]]
    /\ spc' = "await"
    /\ stop_idx' = 1
    /\ UNCHANGED <<started, gateway, api_client, listeners, handles, bus, published,
                   update, pending, delivered, taken>>

\* stop(): "with contextlib.suppress(asyncio.CancelledError): await task"
\* for the next task, and "self._tasks.clear()" after the last. Awaiting a
\* task that raised re-raises its exception out of stop().
StopAwait ==
    /\ LoopIdle
    /\ spc = "await"
    /\ IF stop_idx > Len(tasks)
       THEN /\ tasks' = <<>>
            /\ spc' = "gateway"
            /\ UNCHANGED stop_idx
       ELSE /\ tasks[stop_idx].state \in {"cancelled", "finished", "failed"}
            /\ IF tasks[stop_idx].state = "failed"
               THEN spc' = "raised" /\ UNCHANGED stop_idx
               ELSE stop_idx' = stop_idx + 1 /\ UNCHANGED spc
            /\ UNCHANGED tasks
    /\ UNCHANGED <<started, gateway, api_client, listeners, handles, bus, published,
                   update, pending, delivered, taken>>

\* stop(): "await self.gateway.stop()".
StopGateway ==
    /\ LoopIdle
    /\ spc = "gateway"
    /\ gateway' = "stopped"
    /\ spc' = "api"
    /\ UNCHANGED <<started, tasks, api_client, stop_idx, listeners, handles, bus, published,
                   update, pending, delivered, taken>>

\* stop(): "await self.api.close()".
StopApi ==
    /\ LoopIdle
    /\ spc = "api"
    /\ api_client' = "closed"
    /\ spc' = "done"
    /\ UNCHANGED <<started, tasks, gateway, stop_idx, listeners, handles, bus, published,
                   update, pending, delivered, taken>>

\* ---------------------------------------------------------------------------
\* config_flow.py: BragerConfigFlow steps user, select_site, select_modules
\* ---------------------------------------------------------------------------

VARIABLES _email, _password, _platform, _language, _object_choices, _module_choices,
          _selected_object_id, _entity_filter_mode, _module_filter_modes,
          flow_step, flow_steps, flow_input, flow_result, flow_entry, authenticated, fetched

flowVars == <<_email, _password, _platform, _language, _object_choices, _module_choices,
              _selected_object_id, _entity_filter_mode, _module_filter_modes,
              flow_step, flow_steps, flow_input, flow_result, flow_entry, authenticated, fetched>>

\* self._email / self._password is None
NoText == "None"

\* self._selected_object_id is None
NoObject == 0

sMod2 == <<"M", "O", "D", "2">>

sEn == <<"e", "n">>

sEnPadded == <<" ", "E", "N">>

sXx == <<"x", "x">>

sBragerone == <<"b", "r", "a", "g", "e", "r", "o", "n", "e">>

sTisconnect == <<"T", "i", "s", "C", "o", "n", "n", "e", "c", "t">>

sPermissionsPadded == <<" ", "P", "e", "r", "m", "i", "s", "s", "i", "o", "n", "s", " ">>

sBogus == <<"b", "o", "g", "u", "s">>

\* _language_values(platform) when the catalog gives nothing
LanguageValues == {sEn, <<"p", "l">>}

\* _entity_filter_mode_values(): its keys
_entity_filter_mode_values == {FILTER_MODE_UI, FILTER_MODE_PERMISSIONS}

\* _module_choices(modules): the codes str(module.get("devid", "")).strip()
\* that are not empty, in the order of the API's list.
ModuleChoices(modules) == SelectSeq([i \in 1..Len(modules) |-> Strip(modules[i])], LAMBDA code : code # <<>>)

\* user_input is None
NoInput == [given |-> FALSE]

\* A field of user_input: missing, or present with a text.
NoField == [present |-> FALSE, text |-> <<>>]

Field(text) == [present |-> TRUE, text |-> text]

\* user_input.get(field, default_mode)
FieldGet(field, default) == IF field.present THEN field.text ELSE default

UserInputs == [given : {TRUE}, email : {"a@x", "b@x"}, password : {"pw"}, platform : {sTisconnect}, language : {sEnPadded, sXx}]

SiteInputs == [given : {TRUE}, object_id : ObjectIds]

ModeFields == {NoField, Field(sPermissionsPadded), Field(sBogus)}

MaxSelected == 2

MaxFlowSteps == 4

ModulesInputs == UNION {[given : {TRUE}, modules : {selected}, modes : [Members(selected) -> ModeFields]] : selected \in ListsOf({sMod1, sMod2}, MaxSelected)}

\* api.get_objects(): the ids of the objects
ObjectLists == {<<>>, <<1>>, <<1, 2>>}

\* api.get_modules(object_id): the devids of the modules; the call may
\* also raise ApiError, as api.ensure_auth and async_build_bootstrap_payload
\* may, and the unique id may be configured already.
FlowModuleLists == {<<sBlank>>, <<sMod1>>, <<sMod1, sBlank, sMod2>>}

Form(step_id, base_error) == [type |-> "form", step_id |-> step_id, error |-> base_error]

Abort(abort_reason) == [type |-> "abort", step_id |-> "", error |-> abort_reason]

CreateEntry == [type |-> "create_entry", step_id |-> "", error |-> ""]

Raised(exception) == [type |-> "raised", step_id |-> "", error |-> exception]

NoEntry == [created |-> FALSE]

\* What api.get_modules returned last for an object id.
NotFetched == [done |-> FALSE, choices |-> <<>>]

Fetched(choices) == [done |-> TRUE, choices |-> choices]

\* _extract_selected_module_filter_modes: the dict of the modes, or None
\* (here: the empty function with ok FALSE) at the first mode outside the
\* values.
_extract_selected_module_filter_modes(user_input, module_ids, default_mode) ==
    LET ModeOf(module_id) == Lower(Strip(FieldGet(user_input.modes[module_id], default_mode)))
    IN  IF \E i \in 1..Len(module_ids) : ModeOf(module_ids[i]) \notin _entity_filter_mode_values
        THEN [ok |-> FALSE, selected |-> <<>>]
        ELSE [ok |-> TRUE, selected |-> [module_id \in Members(module_ids) |-> ModeOf(module_id)]]

IdleFlow ==
    /\ _email = NoText
    /\ _password = NoText
    /\ _platform = sBragerone
    /\ _language = <<>>
    /\ _object_choices = <<>>
    /\ _module_choices = <<>>
    /\ _selected_object_id = NoObject
    /\ _entity_filter_mode = DEFAULT_ENTITY_FILTER_MODE
    /\ _module_filter_modes = <<>>
    /\ flow_step = ""
    /\ flow_steps = 0
    /\ flow_input = NoInput
    /\ flow_result = Form("", "")
    /\ flow_entry = NoEntry
    /\ authenticated = {}
    /\ fetched = [object_id \in ObjectIds |-> NotFetched]

\* BragerConfigFlow.__init__
InitFlow == IdleFlow

\* The flow manager drops a flow that created an entry or aborted.
FlowOpen == flow_result.type \notin {"create_entry", "abort"} /\ flow_steps < MaxFlowSteps

\* async_step_user(None): the form.
UserForm == Form("user", "")

\* async_step_select_site(None)
SiteForm ==
    IF _email = NoText \/ _password = NoText THEN UserForm
    ELSE IF _object_choices = <<>> THEN Raised("IndexError")
    ELSE Form("select_site", "")

\* async_step_user
StepUser ==
    /\ FlowOpen
    /\ \E user_input \in UserInputs \cup {NoInput} :
          /\ flow_step' = "user"
          /\ flow_steps' = flow_steps + 1
          /\ flow_input' = [given |-> user_input.given]
          /\ IF ~user_input.given
             THEN /\ flow_result' = UserForm
                  /\ UNCHANGED <<_email, _password, _platform, _language, _object_choices, authenticated>>
             ELSE LET selected_platform == Lower(Strip(user_input.platform))
                      selected_language == Lower(Strip(user_input.language))
                  IN  /\ _platform' = selected_platform
                      /\ IF selected_language \notin LanguageValues
                         THEN /\ flow_result' = Form("user", "invalid_response")
                              /\ UNCHANGED <<_email, _password, _language, _object_choices, authenticated>>
                         ELSE \/ /\ flow_result' = Form("user", "auth")
                                 /\ UNCHANGED <<_email, _password, _language, _object_choices, authenticated>>
                              \/ \E objects \in ObjectLists :
                                    /\ _email' = user_input.email
                                    /\ _password' = user_input.password
                                    /\ _language' = selected_language
                                    /\ _object_choices' = objects
                                    /\ authenticated' = authenticated \cup {<<user_input.email, user_input.password>>}
                                    /\ flow_result' = IF objects = <<>> THEN Abort("invalid_response")
                                                      ELSE Form("select_site", "")
    /\ UNCHANGED <<_module_choices, _selected_object_id, _entity_filter_mode,
                   _module_filter_modes, flow_entry, fetched>>

\* async_step_select_site
StepSelectSite ==
    /\ FlowOpen
    /\ \E user_input \in SiteInputs \cup {NoInput} :
          /\ flow_step' = "select_site"
          /\ flow_steps' = flow_steps + 1
          /\ flow_input' = [given |-> user_input.given]
          /\ IF _email = NoText \/ _password = NoText \/ _object_choices = <<>> \/ ~user_input.given
             THEN /\ flow_result' = SiteForm
                  /\ UNCHANGED <<_selected_object_id, _module_choices, fetched>>
             ELSE \/ /\ flow_result' = Form("select_site", "cannot_connect")
                     /\ UNCHANGED <<_selected_object_id, _module_choices, fetched>>
                  \/ \E modules \in FlowModuleLists :
                        /\ _selected_object_id' = user_input.object_id
                        /\ _module_choices' = ModuleChoices(modules)
                        /\ fetched' = [fetched EXCEPT ![user_input.object_id] = Fetched(ModuleChoices(modules))]
                        /\ flow_result' = IF ModuleChoices(modules) = <<>>
                                          THEN Form("select_site", "invalid_response")
                                          ELSE Form("select_modules", "")
    /\ UNCHANGED <<_email, _password, _platform, _language, _object_choices,
                   _entity_filter_mode, _module_filter_modes, flow_entry, authenticated>>

StepSelectModules_AnyModule ==
    /\ FlowOpen
    /\ \E user_input \in ModulesInputs \cup {NoInput} :
          /\ flow_step' = "select_modules"
          /\ flow_steps' = flow_steps + 1
          /\ flow_input' = user_input
          /\ IF _email = NoText \/ _password = NoText \/ _selected_object_id = NoObject
             THEN /\ flow_result' = UserForm
                  /\ UNCHANGED <<_entity_filter_mode, _module_filter_modes, flow_entry>>
             ELSE IF _module_choices = <<>>
             THEN /\ flow_result' = SiteForm
                  /\ UNCHANGED <<_entity_filter_mode, _module_filter_modes, flow_entry>>
             ELSE IF ~user_input.given
             THEN /\ flow_result' = Form("select_modules", "")
                  /\ UNCHANGED <<_entity_filter_mode, _module_filter_modes, flow_entry>>
             ELSE LET default_mode == _normalize_filter_mode(_entity_filter_mode)
                      selected_modules == user_input.modules
                      selected_filter_modes == _extract_selected_module_filter_modes(user_input, selected_modules, default_mode)
                  IN  IF selected_modules = <<>> \/ ~selected_filter_modes.ok
                      THEN /\ flow_result' = Form("select_modules", "invalid_response")
                           /\ UNCHANGED <<_entity_filter_mode, _module_filter_modes, flow_entry>>
                      ELSE /\ _module_filter_modes' = selected_filter_modes.selected
                           /\ _entity_filter_mode' = selected_filter_modes.selected[selected_modules[1]]
                           /\ \/ flow_result' = Abort("already_configured") /\ UNCHANGED flow_entry
                              \/ flow_result' = Raised("ApiError") /\ UNCHANGED flow_entry
                              \/ \E effective \in SUBSET Members(selected_modules) :
                                   /\ flow_result' = CreateEntry
                                   /\ flow_entry' = [created |-> TRUE, email |-> _email, password |-> _password, platform |-> _platform, language |-> _language, entity_filter_mode |-> _entity_filter_mode', object_id |-> _selected_object_id, modules |-> selected_modules, module_filter_modes |-> [module_id \in Members(selected_modules) \cap effective |-> selected_filter_modes.selected[module_id]]]
    /\ UNCHANGED <<_email, _password, _platform, _language, _object_choices, _module_choices,
                   _selected_object_id, authenticated, fetched>>

\* async_step_select_modules
StepSelectModules ==
    /\ FlowOpen
    /\ \E user_input \in ModulesInputs \cup {NoInput} :
          /\ flow_step' = "select_modules"
          /\ flow_steps' = flow_steps + 1
          /\ flow_input' = user_input
          /\ IF _email = NoText \/ _password = NoText \/ _selected_object_id = NoObject
             THEN /\ flow_result' = UserForm
                  /\ UNCHANGED <<_entity_filter_mode, _module_filter_modes, flow_entry>>
             ELSE IF _module_choices = <<>>
             THEN /\ flow_result' = SiteForm
                  /\ UNCHANGED <<_entity_filter_mode, _module_filter_modes, flow_entry>>
             ELSE IF ~user_input.given
             THEN /\ flow_result' = Form("select_modules", "")
                  /\ UNCHANGED <<_entity_filter_mode, _module_filter_modes, flow_entry>>
             ELSE LET default_mode == _normalize_filter_mode(_entity_filter_mode)
                      selected_modules == user_input.modules
                      available_codes == Members(_module_choices)
                      selected_filter_modes == _extract_selected_module_filter_modes(user_input, selected_modules, default_mode)
                  IN  IF \/ selected_modules = <<>>
                         \/ \E i \in 1..Len(selected_modules) : selected_modules[i] \notin available_codes
                         \/ ~selected_filter_modes.ok
                      THEN /\ flow_result' = Form("select_modules", "invalid_response")
                           /\ UNCHANGED <<_entity_filter_mode, _module_filter_modes, flow_entry>>
                      ELSE /\ _module_filter_modes' = selected_filter_modes.selected
                           /\ _entity_filter_mode' = selected_filter_modes.selected[selected_modules[1]]
                           /\ \/ flow_result' = Abort("already_configured") /\ UNCHANGED flow_entry
                              \/ flow_result' = Raised("ApiError") /\ UNCHANGED flow_entry
                              \/ \E effective \in SUBSET Members(selected_modules) :
                                   /\ flow_result' = CreateEntry
                                   /\ flow_entry' = [created |-> TRUE, email |-> _email, password |-> _password, platform |-> _platform, language |-> _language, entity_filter_mode |-> _entity_filter_mode', object_id |-> _selected_object_id, modules |-> selected_modules, module_filter_modes |-> [module_id \in Members(selected_modules) \cap effective |-> selected_filter_modes.selected[module_id]]]
    /\ UNCHANGED <<_email, _password, _platform, _language, _object_choices, _module_choices,
                   _selected_object_id, authenticated, fetched>>

vars == <<writeVars, classifyVars, runtimeVars, setupVars, entityVars, lifecycleVars, flowVars>>

Init == InitWrite /\ IdleClassify /\ IdleRuntime /\ IdleSetup /\ IdleEntity /\ IdleLifecycle /\ IdleFlow

Next ==
    \/ (CallEnumDisplayToRaw /\ UNCHANGED <<classifyVars, runtimeVars, setupVars, entityVars, lifecycleVars, flowVars>>)
    \/ (CallEnumRawToDisplay /\ UNCHANGED <<classifyVars, runtimeVars, setupVars, entityVars, lifecycleVars, flowVars>>)
    \/ (CallSelectCommandRoute /\ UNCHANGED <<classifyVars, runtimeVars, setupVars, entityVars, lifecycleVars, flowVars>>)
    \/ (PrepareWriteEnum /\ UNCHANGED <<classifyVars, runtimeVars, setupVars, entityVars, lifecycleVars, flowVars>>)
    \/ (PrepareWriteTransform /\ UNCHANGED <<classifyVars, runtimeVars, setupVars, entityVars, lifecycleVars, flowVars>>)
    \/ (PrepareWriteBounds /\ UNCHANGED <<classifyVars, runtimeVars, setupVars, entityVars, lifecycleVars, flowVars>>)
    \/ (PrepareWriteRoute /\ UNCHANGED <<classifyVars, runtimeVars, setupVars, entityVars, lifecycleVars, flowVars>>)
    \/ (PrepareWriteReturn /\ UNCHANGED <<classifyVars, runtimeVars, setupVars, entityVars, lifecycleVars, flowVars>>)

\* the write preparer
Spec == Init /\ [][Next]_vars

InitC == IdleWrite /\ InitClassify /\ IdleRuntime /\ IdleSetup /\ IdleEntity /\ IdleLifecycle /\ IdleFlow

NextC ==
    \/ (Classify /\ UNCHANGED <<writeVars, runtimeVars, setupVars, entityVars, lifecycleVars, flowVars>>)
    \/ (NormalizeCachedDescriptors /\ UNCHANGED <<writeVars, runtimeVars, setupVars, entityVars, lifecycleVars, flowVars>>)
    \/ (BuildBootstrapDescriptors /\ UNCHANGED <<writeVars, runtimeVars, setupVars, entityVars, lifecycleVars, flowVars>>)

\* the descriptor classifier
SpecClassify == InitC /\ [][NextC]_vars

InitR == IdleWrite /\ IdleClassify /\ InitRuntime /\ IdleSetup /\ IdleEntity /\ IdleLifecycle /\ IdleFlow

NextR ==
    \/ (CallSelectCommandRule /\ UNCHANGED <<writeVars, classifyVars, setupVars, entityVars, lifecycleVars, flowVars>>)
    \/ (AsyncWriteBegin /\ UNCHANGED <<writeVars, classifyVars, setupVars, entityVars, lifecycleVars, flowVars>>)
    \/ (ApiReply /\ UNCHANGED <<writeVars, classifyVars, setupVars, entityVars, lifecycleVars, flowVars>>)

\* the runtime's write path
SpecRuntime == InitR /\ [][NextR]_vars

InitS == IdleWrite /\ IdleClassify /\ IdleRuntime /\ InitSetup /\ IdleEntity /\ IdleLifecycle /\ IdleFlow

NextS ==
    \/ (OptionsFlow /\ UNCHANGED <<writeVars, classifyVars, runtimeVars, entityVars, lifecycleVars, flowVars>>)
    \/ (SetupEntry /\ UNCHANGED <<writeVars, classifyVars, runtimeVars, entityVars, lifecycleVars, flowVars>>)

\* the setup of a config entry
SpecSetup == InitS /\ [][NextS]_vars

InitE == IdleWrite /\ IdleClassify /\ IdleRuntime /\ IdleSetup /\ InitEntity /\ IdleLifecycle /\ IdleFlow

NextE ==
    \/ (SelectOption /\ UNCHANGED <<writeVars, classifyVars, setupVars, lifecycleVars, flowVars>>)
    \/ (TurnOnOff /\ UNCHANGED <<writeVars, classifyVars, setupVars, lifecycleVars, flowVars>>)
    \/ (SetNativeValue /\ UNCHANGED <<writeVars, classifyVars, setupVars, lifecycleVars, flowVars>>)
    \/ (AsyncWriteBegin /\ FinishWrite /\ UNCHANGED <<writeVars, classifyVars, setupVars, lifecycleVars, flowVars>>)
    \/ (ApiReply /\ FinishWrite /\ UNCHANGED <<writeVars, classifyVars, setupVars, lifecycleVars, flowVars>>)
    \/ (AsyncUpdate /\ UNCHANGED <<writeVars, classifyVars, runtimeVars, setupVars, lifecycleVars, flowVars>>)

\* the select, switch and number entities
SpecEntity == InitE /\ [][NextE]_vars

InitL == IdleWrite /\ IdleClassify /\ IdleRuntime /\ IdleSetup /\ IdleEntity /\ InitLifecycle /\ IdleFlow

NextL ==
    \/ (Start /\ UNCHANGED <<writeVars, classifyVars, runtimeVars, setupVars, entityVars, flowVars>>)
    \/ (AddListener /\ UNCHANGED <<writeVars, classifyVars, runtimeVars, setupVars, entityVars, flowVars>>)
    \/ (Unsubscribe /\ UNCHANGED <<writeVars, classifyVars, runtimeVars, setupVars, entityVars, flowVars>>)
    \/ (Publish /\ UNCHANGED <<writeVars, classifyVars, runtimeVars, setupVars, entityVars, flowVars>>)
    \/ (TakeUpdate /\ UNCHANGED <<writeVars, classifyVars, runtimeVars, setupVars, entityVars, flowVars>>)
    \/ (InvokeCallback /\ UNCHANGED <<writeVars, classifyVars, runtimeVars, setupVars, entityVars, flowVars>>)
    \/ (TaskEnds /\ UNCHANGED <<writeVars, classifyVars, runtimeVars, setupVars, entityVars, flowVars>>)
    \/ (TaskCancelled /\ UNCHANGED <<writeVars, classifyVars, runtimeVars, setupVars, entityVars, flowVars>>)
    \/ (StopCancel /\ UNCHANGED <<writeVars, classifyVars, runtimeVars, setupVars, entityVars, flowVars>>)
    \/ (StopAwait /\ UNCHANGED <<writeVars, classifyVars, runtimeVars, setupVars, entityVars, flowVars>>)
    \/ (StopGateway /\ UNCHANGED <<writeVars, classifyVars, runtimeVars, setupVars, entityVars, flowVars>>)
    \/ (StopApi /\ UNCHANGED <<writeVars, classifyVars, runtimeVars, setupVars, entityVars, flowVars>>)

\* the runtime's tasks, listeners and update dispatch
SpecLifecycle == InitL /\ [][NextL]_vars

InitF == IdleWrite /\ IdleClassify /\ IdleRuntime /\ IdleSetup /\ IdleEntity /\ IdleLifecycle /\ InitFlow

NextF ==
    \/ (StepUser /\ UNCHANGED <<writeVars, classifyVars, runtimeVars, setupVars, entityVars, lifecycleVars>>)
    \/ (StepSelectSite /\ UNCHANGED <<writeVars, classifyVars, runtimeVars, setupVars, entityVars, lifecycleVars>>)
    \/ (StepSelectModules /\ UNCHANGED <<writeVars, classifyVars, runtimeVars, setupVars, entityVars, lifecycleVars>>)

\* the config flow
SpecFlow == InitF /\ [][NextF]_vars

(* ------------------------------ claims -------------------------------- *)

Terminal == pc \in {"Returned", "Raised", "Prepared"}

RaisedWith(kinds) == pc = "Raised" /\ outcome.kind = "raise" /\ outcome.err.kind \in kinds

\* the route selection of this call has acted
RouteActed ==
    \/ fn = "select_command_route" /\ pc # "Input"
    \/ fn = "prepare_write" /\ (pc \in {"RouteSelected", "Prepared"} \/ RaisedWith({"no_route"}))

\* C1: select_command_route returns parameter_write whenever a parameter address
\* exists, whatever has_command_rule is; raw_command only when there is no
\* address but a command rule; it raises when neither exists.
C1_RouteSelection ==
    RouteActed =>
        /\ context.has_parameter_address
              => (pc # "Raised" /\ route = "parameter_write")
        /\ (~context.has_parameter_address /\ context.has_command_rule)
              => (pc # "Raised" /\ route = "raw_command")
        /\ (~context.has_parameter_address /\ ~context.has_command_rule)
              => (RaisedWith({"no_route"}) /\ route = "")
        /\ route = "raw_command"
              => (~context.has_parameter_address /\ context.has_command_rule)

C1_Witness ==
    /\ fn = "select_command_route" /\ pc = "Returned"
    /\ context.has_parameter_address /\ context.has_command_rule
    /\ route = "parameter_write"

\* the bounds check of this prepare_write has acted on a numeric raw value
BoundsActed ==
    /\ fn = "prepare_write"
    /\ numeric_raw_value.t # "none"
    /\ \/ pc \in {"BoundsChecked", "RouteSelected", "Prepared"}
       \/ RaisedWith({"below_minimum", "exceeds_maximum", "no_route"})

BelowMin == context.raw_min.t # "none" /\ PyLt(numeric_raw_value, context.raw_min)

AboveMax == context.raw_max.t # "none" /\ PyLt(context.raw_max, numeric_raw_value)

\* C2: when the raw value after the transform lies outside [raw_min, raw_max],
\* prepare_write raises a bounds error that names the violated limit (below
\* minimum with raw_min, exceeds maximum with raw_max); a raw value inside the
\* interval, the bounds themselves included, raises no bounds error.
C2_BoundsError ==
    BoundsActed =>
        /\ (BelowMin \/ AboveMax) => RaisedWith({"below_minimum", "exceeds_maximum"})
        /\ RaisedWith({"below_minimum"})
              => (BelowMin /\ outcome.err.limit = context.raw_min
                           /\ outcome.err.value = numeric_raw_value)
        /\ RaisedWith({"exceeds_maximum"})
              => (AboveMax /\ outcome.err.limit = context.raw_max
                           /\ outcome.err.value = numeric_raw_value)
        /\ (PyEq(numeric_raw_value, context.raw_min) /\ ~AboveMax)
              => ~RaisedWith({"below_minimum", "exceeds_maximum"})
        /\ (PyEq(numeric_raw_value, context.raw_max) /\ ~BelowMin)
              => ~RaisedWith({"below_minimum", "exceeds_maximum"})

\* test_prepare_write_rejects_out_of_range_value
C2_Witness ==
    /\ fn = "prepare_write"
    /\ input_display_value = PyFloat(20, 1)
    /\ context.transform = NumericTransform(PyFloat(1, 10), PyFloat(0, 1))
    /\ context.raw_min = PyInt(0) /\ context.raw_max = PyInt(100)
    /\ numeric_raw_value = PyInt(200)
    /\ RaisedWith({"exceeds_maximum"})

ScaleZero == context.transform.some /\ context.transform.scale.n = 0

\* the value after enum resolution, from the inputs of the call
ResolvedValue ==
    IF context.enum_mapping.some
    THEN enum_display_to_raw(input_display_value, context.enum_mapping.m).val
    ELSE input_display_value

EnumFails ==
    /\ context.enum_mapping.some
    /\ ~InDict(input_display_value, context.enum_mapping.m)
    /\ ~InValues(input_display_value, context.enum_mapping.m)

\* C3 as stated: prepare_write with a transform whose scale == 0 always raises,
\* for every input value and every context.
C3_ScaleZeroAlwaysRaises ==
    (fn = "prepare_write" /\ ScaleZero) => pc # "Prepared"

\* C3 amended: prepare_write with a transform whose scale == 0 raises a
\* validation error for every input whose enum-resolved value is numeric and
\* not boolean (the scale error once enum resolution has passed); for a str or
\* bool value the transform is not consulted and no scale error is raised.
C3_ScaleZeroRaisesForNumeric ==
    (fn = "prepare_write" /\ ScaleZero /\ Terminal) =>
        IF EnumFails THEN RaisedWith({"invalid_enum"})
        ELSE IF IsNumericNotBool(ResolvedValue) THEN RaisedWith({"scale_zero"})
        ELSE ~RaisedWith({"scale_zero"})

C3_Witness ==
    /\ fn = "prepare_write" /\ ScaleZero
    /\ IsNumericNotBool(input_display_value)
    /\ context.has_parameter_address
    /\ RaisedWith({"scale_zero"})

\* C4: enum_display_to_raw(v, m) is m[v] if v is a label of m, also when v
\* equals a raw value of m; otherwise v itself if v equals one of m's raw
\* values (Python ==); otherwise it raises the invalid-enum error carrying
\* all labels of m.
C4_EnumDisplayToRaw ==
    (fn = "enum_display_to_raw" /\ pc # "Input") =>
        LET v == input_display_value
            m == context.enum_mapping.m
        IN  IF v.t = "str" /\ \E i \in 1..Len(m) : m[i].label = v.s
            THEN /\ pc = "Returned"
                 /\ \E i \in 1..Len(m) : m[i].label = v.s /\ outcome.val = m[i].raw
            ELSE IF \E i \in 1..Len(m) : PyEq(v, m[i].raw)
            THEN pc = "Returned" /\ outcome.val = v
            ELSE /\ RaisedWith({"invalid_enum"})
                 /\ outcome.err.value = v
                 /\ outcome.err.labels = {m[i].label : i \in 1..Len(m)}

\* v is a label and equals the raw value of another label: the label wins
C4_Witness ==
    /\ fn = "enum_display_to_raw" /\ pc = "Returned"
    /\ InDict(input_display_value, context.enum_mapping.m)
    /\ InValues(input_display_value, context.enum_mapping.m)
    /\ outcome.val # input_display_value

FirstHolder(label, m) ==
    \A i, j \in 1..Len(m) :
        (m[j].label = label /\ i < j) => ~PyEq(m[i].raw, m[j].raw)

TransformNum ==
    (ResolvedValue.n * context.transform.offset.d
        - context.transform.offset.n * ResolvedValue.d) * context.transform.scale.d

TransformDen ==
    ResolvedValue.d * context.transform.offset.d * context.transform.scale.n

ScaleFails == IsNumericNotBool(ResolvedValue) /\ ScaleZero

\* the raw value the bounds are checked on, as a fraction
RawNum == IF context.transform.some THEN TransformNum ELSE ResolvedValue.n

RawDen == IF context.transform.some THEN TransformDen ELSE ResolvedValue.d

BoundsFail ==
    /\ IsNumericNotBool(ResolvedValue)
    /\ \/ context.raw_min.t # "none"
          /\ RawNum * context.raw_min.d * Sign(RawDen)
                < context.raw_min.n * RawDen * Sign(RawDen)
       \/ context.raw_max.t # "none"
          /\ RawNum * context.raw_max.d * Sign(RawDen)
                > context.raw_max.n * RawDen * Sign(RawDen)

RouteFails == ~context.has_parameter_address /\ ~context.has_command_rule

StageStep ==
    /\ pc = "Input" =>
          IF EnumFails THEN RaisedWith({"invalid_enum"})'
          ELSE pc' = "EnumResolved"
    /\ pc = "EnumResolved" =>
          IF ScaleFails THEN RaisedWith({"scale_zero"})'
          ELSE pc' = "NumericTransformed"
    /\ pc = "NumericTransformed" =>
          IF BoundsFail THEN RaisedWith({"below_minimum", "exceeds_maximum"})'
          ELSE pc' = "BoundsChecked"
    /\ pc = "BoundsChecked" =>
          IF RouteFails THEN RaisedWith({"no_route"})'
          ELSE pc' = "RouteSelected"
    /\ pc = "RouteSelected" =>
          /\ pc' = "Prepared"
          /\ prepared'.symbol = context.symbol
          /\ prepared'.input_display_value = input_display_value
          /\ prepared'.raw_value = converted_value
          /\ prepared'.route = route
          /\ route = IF context.has_parameter_address
                     THEN "parameter_write" ELSE "raw_command"
    /\ pc' # "Prepared" => prepared' = NoPrepared
    /\ pc \notin {"Raised", "Prepared"}

\* C6: prepare_write runs enum resolution, inverse transform, bounds check and
\* route selection in this order and stops at the first stage that fails: each
\* step leaves a stage either for the next stage or, exactly when that stage
\* fails on the inputs, for its own error; the PreparedWrite (original input,
\* raw value, symbol, route) appears only in the step after route selection.
C6_StageOrder == [][fn = "prepare_write" => StageStep]_vars

\* a bounds violation is reported although no route exists either
C6_Witness ==
    /\ fn = "prepare_write"
    /\ ~EnumFails /\ ~ScaleFails /\ BoundsFail /\ RouteFails
    /\ RaisedWith({"below_minimum", "exceeds_maximum"})

\* C7: for a numeric, non-boolean enum-resolved value and a transform with
\* non-zero scale, the raw_value of the PreparedWrite equals
\* (display - offset) / scale, as an int when that quotient is integral and as
\* a float otherwise; 20.0 with scale 0.1, offset 0.0 and bounds [0, 400]
\* gives 200 on route parameter_write.
C7_InverseTransform ==
    /\ (fn = "prepare_write" /\ pc = "Prepared" /\ context.transform.some
           /\ IsNumericNotBool(ResolvedValue))
       => /\ TransformDen # 0
          /\ prepared.raw_value.n * TransformDen = TransformNum * prepared.raw_value.d
          /\ prepared.raw_value.t =
                IF TransformNum % Abs(TransformDen) = 0 THEN "int" ELSE "float"
    /\ (fn = "prepare_write" /\ Terminal
           /\ input_display_value = PyFloat(20, 1)
           /\ ~context.enum_mapping.some
           /\ context.transform = NumericTransform(PyFloat(1, 10), PyFloat(0, 1))
           /\ context.raw_min = PyInt(0) /\ context.raw_max = PyInt(400)
           /\ context.has_parameter_address)
       => /\ pc = "Prepared"
          /\ prepared.raw_value = PyInt(200)
          /\ prepared.route = "parameter_write"

\* test_prepare_write_applies_inverse_transform
C7_Witness ==
    /\ fn = "prepare_write" /\ pc = "Prepared"
    /\ input_display_value = PyFloat(20, 1)
    /\ ~context.enum_mapping.some
    /\ context.transform = NumericTransform(PyFloat(1, 10), PyFloat(0, 1))
    /\ context.raw_min = PyInt(0) /\ context.raw_max = PyInt(400)
    /\ context.has_parameter_address /\ ~context.has_command_rule
    /\ prepared.raw_value = PyInt(200)

\* the component_type of the mapping is text that, lower-cased, contains a
\* denylisted marker
HasMarker(mapping) ==
    /\ mapping.isdict
    /\ mapping.component_type.t = "str"
    /\ \E marker \in {<<"p", "a", "s", "s", "w", "o", "r", "d">>, <<"m", "e", "n", "u">>, <<"v", "i", "e", "w">>, <<"s", "e", "p", "a", "r", "a", "t", "o", "r">>, <<"t", "i", "t", "l", "e">>} :
            Contains(Lower(mapping.component_type.s), marker)

\* pool and chan are strings and idx is an integer
DirectAddress(d) == d.pool.t = "str" /\ d.chan.t = "str" /\ d.idx.t = "int"

ListDone == cfn \in {"normalize_cached_descriptors", "async_build_bootstrap_payload"}
                /\ cpc = "Done"

\* C8: a descriptor whose component_type contains a denylisted marker
\* (password, menu, view, separator, title; case-insensitive) is never exposable,
\* whatever its writable flag and address are, and neither
\* normalize_cached_descriptors nor the bootstrap emits such a descriptor.
C8_DenylistNeverExposed ==
    /\ (cfn = "classify" /\ cpc = "Done" /\ HasMarker(candidate.mapping))
          => ~exposable
    /\ ListDone => \A k \in 1..Len(normalized) : ~HasMarker(normalized[k].mapping)

\* a writable, addressed password field was in the cache and is not emitted
C8_Witness ==
    /\ cfn = "normalize_cached_descriptors" /\ cpc = "Done"
    /\ Len(descriptors_raw) = 2
    /\ descriptors_raw[1] = PasswordField
    /\ descriptors_raw[2] = ParamP41
    /\ Truthy(PasswordField.writable) /\ DirectAddress(PasswordField)
    /\ Len(normalized) = 1

\* the writable flag normalize_cached_descriptors works with
EffectiveWritable(d) ==
    \/ Truthy(d.writable)
    \/ d.mapping.isdict /\ d.mapping.command_rules.kind = "list"
                        /\ Len(d.mapping.command_rules.items) > 0

\* the positions of the cached list the claim says are kept
ExpectedKept ==
    {i \in 1..Len(descriptors_raw) :
        /\ descriptors_raw[i].isdict
        /\ ~HasMarker(descriptors_raw[i].mapping)
        /\ (EffectiveWritable(descriptors_raw[i]) \/ DirectAddress(descriptors_raw[i]))}

\* the position of the k-th kept descriptor
KthKept(k) ==
    CHOOSE i \in ExpectedKept : Cardinality({j \in ExpectedKept : j <= i}) = k

SameSymbolData(a, b) ==
    /\ a.symbol = b.symbol /\ a.pool = b.pool /\ a.chan = b.chan /\ a.idx = b.idx
    /\ a.min = b.min /\ a.max = b.max /\ a.mapping = b.mapping

\* C9: without a denylisted marker, is_exposable is true iff writable is true
\* or pool and chan are strings and idx is an integer; normalize_cached_descriptors
\* keeps exactly the descriptors that pass, in order, so it drops a non-writable
\* descriptor without an address and keeps a non-writable addressed one.
C9_ExposableIffWritableOrAddressed ==
    /\ (cfn = "classify" /\ cpc = "Done" /\ ~HasMarker(candidate.mapping))
          => (exposable <=> (Truthy(candidate.writable) \/ DirectAddress(candidate)))
    /\ (cfn = "normalize_cached_descriptors" /\ cpc = "Done")
          => /\ Len(normalized) = Cardinality(ExpectedKept)
             /\ \A k \in 1..Len(normalized) :
                    SameSymbolData(normalized[k], descriptors_raw[KthKept(k)])

\* test_normalize_cached_descriptors_filters_non_exposable_tokens
C9_Witness ==
    /\ cfn = "normalize_cached_descriptors" /\ cpc = "Done"
    /\ descriptors_raw = <<InternalToken, ParamP41>>
    /\ ~EffectiveWritable(InternalToken) /\ ~DirectAddress(InternalToken)
    /\ ~EffectiveWritable(ParamP41) /\ DirectAddress(ParamP41)
    /\ Len(normalized) = 1
    /\ normalized[1].symbol = PyStr(sParamP41)
    /\ normalized[1].platform = "sensor"

\* the component_type of the candidate, lower-cased ("" when there is none)
CandidateType ==
    IF candidate.mapping.isdict /\ candidate.mapping.component_type.t = "str"
    THEN Lower(candidate.mapping.component_type.s)
    ELSE <<>>

\* the decision list of the claim, in order
PlatformRules ==
    << [when |-> \/ candidate.chan = PyStr(<<"s">>)
                 \/ StartsWith(Upper(SymbolText(candidate)), <<"S", "T", "A", "T", "U", "S", "_">>)
                 \/ Contains(CandidateType, <<"s", "t", "a", "t", "u", "s">>),
        then |-> "binary_sensor"],
       [when |-> ~Truthy(candidate.writable), then |-> "sensor"],
       [when |-> /\ candidate.mapping.isdict
                 /\ candidate.mapping.values.kind = "list"
                 /\ Len(candidate.mapping.values.items) > 0,
        then |-> "select"],
       [when |-> \/ Contains(CandidateType, <<"b", "u", "t", "t", "o", "n">>)
                 \/ Contains(CandidateType, <<"a", "c", "t", "i", "o", "n">>),
        then |-> "button"],
       [when |-> ~DirectAddress(candidate), then |-> "button"],
       [when |-> candidate.min.t \in {"int", "float"} /\ candidate.max.t \in {"int", "float"},
        then |-> "number"],
       [when |-> TRUE, then |-> "switch"] >>

FirstMatch(rules) ==
    rules[CHOOSE i \in 1..Len(rules) :
            rules[i].when /\ \A j \in 1..(i - 1) : ~rules[j].when].then

\* C10: infer_platform returns the result of the first matching rule of the
\* list: status channel, STATUS_ symbol or status component type gives
\* binary_sensor; not writable gives sensor; a non-empty mapping.values list
\* gives select; a button or action component type gives button; no direct
\* address gives button; numeric min and max give number; anything else switch.
C10_FirstMatchingRule ==
    (cfn = "classify" /\ cpc = "Done") => platform = FirstMatch(PlatformRules)

\* rules 1, 3, 4, 5 and 6 all match: the first one decides
C10_Witness ==
    /\ cfn = "classify" /\ cpc = "Done"
    /\ PlatformRules[1].when /\ PlatformRules[3].when /\ PlatformRules[4].when
    /\ PlatformRules[5].when /\ PlatformRules[6].when
    /\ platform = "binary_sensor"

\* the descriptor is a status value: status channel "s", a symbol starting with
\* STATUS_ (any case) or a component_type containing "status" (any case)
IsStatus(d) ==
    \/ d.chan = PyStr(<<"s">>)
    \/ StartsWith(Upper(SymbolText(d)), <<"S", "T", "A", "T", "U", "S", "_">>)
    \/ /\ d.mapping.isdict /\ d.mapping.component_type.t = "str"
       /\ Contains(Lower(d.mapping.component_type.s), <<"s", "t", "a", "t", "u", "s">>)

\* the writable flag of an emitted descriptor is false
NotWritable(d) == ~Truthy(d.writable)

\* C11 as stated: for all non-writable descriptors, infer_platform returns
\* sensor.
C11_NonWritableSensor ==
    /\ (cfn = "classify" /\ cpc = "Done" /\ NotWritable(candidate))
          => platform = "sensor"
    /\ ListDone => \A k \in 1..Len(normalized) :
                      NotWritable(normalized[k]) => normalized[k].platform = "sensor"

\* C11 amended: for all non-writable descriptors, infer_platform returns
\* binary_sensor when the descriptor is a status value (channel "s", STATUS_
\* symbol or status component type) and sensor otherwise, whatever the
\* descriptor's values, min/max and address are.
C11_NonWritableSensorUnlessStatus ==
    /\ (cfn = "classify" /\ cpc = "Done" /\ NotWritable(candidate))
          => platform = IF IsStatus(candidate) THEN "binary_sensor" ELSE "sensor"
    /\ ListDone => \A k \in 1..Len(normalized) :
                      NotWritable(normalized[k]) =>
                          normalized[k].platform =
                              IF IsStatus(normalized[k]) THEN "binary_sensor" ELSE "sensor"

\* test_normalize_cached_descriptors_filters_non_exposable_tokens next to a
\* non-writable value of the status channel
C11_Witness ==
    /\ cfn = "normalize_cached_descriptors" /\ cpc = "Done"
    /\ descriptors_raw = <<ParamP41, StatusChannel>>
    /\ Len(normalized) = 2
    /\ NotWritable(normalized[1]) /\ normalized[1].platform = "sensor"
    /\ NotWritable(normalized[2]) /\ normalized[2].platform = "binary_sensor"

\* the labels _enum_maps derives from values / units_source, in source order,
\* entries with an empty label left out
DerivedLabels(mapping) ==
    LET pairs == IF mapping.isdict THEN EnumPairs(mapping) ELSE <<>>
    IN  SelectSeq([i \in 1..Len(pairs) |-> pairs[i].label], LAMBDA l : l # <<>>)

\* the members of a sequence in order of first occurrence, each once
RECURSIVE Deduplicated(_)
Deduplicated(labels) ==
    IF labels = <<>> THEN <<>>
    ELSE LET front == Deduplicated(SubSeq(labels, 1, Len(labels) - 1))
             last == labels[Len(labels)]
         IN  IF \E i \in 1..Len(front) : front[i] = last THEN front
             ELSE Append(front, last)

HasValues(mapping) ==
    mapping.isdict /\ mapping.values.kind = "list" /\ Len(mapping.values.items) > 0

\* C12 as stated: for all writable descriptors with a non-empty mapping.values
\* list, infer_platform returns select and the options are the ordered,
\* de-duplicated labels.
C12_WritableValuesSelect ==
    /\ (cfn = "classify" /\ cpc = "Done" /\ Truthy(candidate.writable)
            /\ HasValues(candidate.mapping))
          => platform = "select"
    /\ ListDone => \A k \in 1..Len(normalized) :
            (Truthy(normalized[k].writable) /\ HasValues(normalized[k].mapping))
                => /\ normalized[k].platform = "select"
                   /\ normalized[k].options =
                          Deduplicated(DerivedLabels(normalized[k].mapping))

\* C12 amended: for all writable descriptors with a non-empty mapping.values
\* list that are no status value (channel "s", STATUS_ symbol, status component
\* type), infer_platform returns select; a status value stays binary_sensor.
\* In both cases the descriptor's options equal the ordered, de-duplicated list
\* of the non-empty labels derived from units_source/values; values [0,1,2]
\* with units_source {"0":"Off","1":"Eco","2":"Boost"} give select and
\* [Off, Eco, Boost].
C12_WritableValuesSelectUnlessStatus ==
    /\ (cfn = "classify" /\ cpc = "Done" /\ Truthy(candidate.writable)
            /\ HasValues(candidate.mapping))
          => platform = IF IsStatus(candidate) THEN "binary_sensor" ELSE "select"
    /\ ListDone => \A k \in 1..Len(normalized) :
            (Truthy(normalized[k].writable) /\ HasValues(normalized[k].mapping))
                => /\ normalized[k].platform =
                          IF IsStatus(normalized[k]) THEN "binary_sensor" ELSE "select"
                   /\ normalized[k].options =
                          Deduplicated(DerivedLabels(normalized[k].mapping))
    /\ (ListDone /\ descriptors_raw = <<[ModeSelect EXCEPT !.writable = None]>>)
          => /\ Len(normalized) = 1
             /\ normalized[1].platform = "select"
             /\ normalized[1].options = <<sOff, sEco, sBoost>>

\* two values resolve to the label Off, a third falls back to its own text
C12_Witness ==
    /\ cfn = "normalize_cached_descriptors" /\ cpc = "Done"
    /\ Len(normalized) = 1
    /\ Truthy(normalized[1].writable)
    /\ Len(normalized[1].mapping.values.items) = 2
    /\ Len(DerivedLabels(normalized[1].mapping)) = 2
    /\ normalized[1].options = <<sOff>>
    /\ normalized[1].platform = "select"

\* the descriptor is writable, has no direct address and is neither a status
\* value nor an enum
ButtonCase(d) ==
    /\ Truthy(d.writable)
    /\ ~DirectAddress(d)
    /\ ~IsStatus(d)
    /\ ~HasValues(d.mapping)

\* C13: for all writable descriptors that lack a direct address and are
\* classified neither as select nor as binary_sensor, infer_platform returns
\* button, whatever their min/max and command rules are.
C13_UnaddressedWritableIsButton ==
    /\ (cfn = "classify" /\ cpc = "Done")
          => /\ ButtonCase(candidate) => platform = "button"
             /\ (Truthy(candidate.writable) /\ ~DirectAddress(candidate)
                    /\ platform \notin {"select", "binary_sensor"})
                   => platform = "button"
    /\ ListDone => \A k \in 1..Len(normalized) :
                      ButtonCase(normalized[k]) => normalized[k].platform = "button"

\* numeric min and max and on/off rules, but no address: button, not number
C13_Witness ==
    /\ cfn = "classify" /\ cpc = "Done"
    /\ ButtonCase(candidate)
    /\ candidate.min = PyInt(0) /\ candidate.max = PyInt(10)
    /\ candidate.mapping.isdict
    /\ candidate.mapping.command_rules = OnOffRules
    /\ candidate.mapping.component_type = PyStr(sSwitch)
    /\ platform = "button"

\* the coerced raw value of the first source entry that resolves to label
FirstRawOf(mapping, label) ==
    LET pairs == EnumPairs(mapping)
        first == CHOOSE i \in 1..Len(pairs) :
                    pairs[i].label = label /\ \A j \in 1..(i - 1) : pairs[j].label # label
    IN  pairs[first].raw

\* C14 as stated: in enum_maps, when several source entries resolve to the same
\* display label, the first occurrence wins: enum_map[label] holds the coerced
\* raw value of the first entry with that label, and the label appears once in
\* options at its first position.
C14_FirstOccurrenceWins ==
    ListDone => \A k \in 1..Len(normalized) :
        LET d == normalized[k]
        IN  /\ d.options = Deduplicated(DerivedLabels(d.mapping))
            /\ Len(d.enum_map) = Len(d.options)
            /\ \A i \in 1..Len(d.enum_map) :
                    /\ d.enum_map[i].label = d.options[i]
                    /\ d.enum_map[i].raw = FirstRawOf(d.mapping, d.enum_map[i].label)

\* mapping.command_rules is non-empty
RulesNonEmpty(d) ==
    /\ d.mapping.isdict
    /\ d.mapping.command_rules.kind = "list"
    /\ Len(d.mapping.command_rules.items) > 0

LogicMatches(rule, desired) ==
    /\ desired.t = "bool"
    /\ rule.logic.t = "str"
    /\ Lower(Strip(rule.logic.s)) = IF desired = PyBool(TRUE) THEN <<"o", "n">>
                                    ELSE <<"o", "f", "f">>

\* the rule's value and the desired value give the same lower-cased, trimmed text
ValueMatches(rule, desired) ==
    LET value == IF rule.value.t = "absent" THEN None ELSE rule.value
    IN  Lower(Strip(PyStrOf(value))) = Lower(Strip(PyStrOf(desired)))

\* the rule the claim selects from an ordered rule list
ExpectedRule(rules, desired) ==
    LET hits == {i \in 1..Len(rules) :
                    LogicMatches(rules[i], desired) \/ ValueMatches(rules[i], desired)}
    IN  IF hits # {} THEN rules[CHOOSE i \in hits : \A j \in hits : i <= j]
        ELSE IF Len(rules) > 0 THEN rules[1]
        ELSE [isdict |-> TRUE, command |-> None, logic |-> None, value |-> Absent]

\* the outcome of prepare_write on the inputs of this async_write
Prepared == prepare_write(write_input, ContextOf(write_descriptor, write_enum_mapping))

\* the descriptor has no device id (no "devid" key, or an empty one)
NoDeviceId == write_descriptor.devid.t = "absent" \/ write_descriptor.devid = PyStr(<<>>)

\* this async_write takes the raw command route
RawRoute == ~NoDeviceId /\ Prepared.ok /\ Prepared.prepared.route = "raw_command"

\* C17: command-rule selection over the ordered rule list returns the first rule
\* whose logic matches the boolean intent of the desired value ("on" for true,
\* "off" for false) or whose own value stringifies (lower-cased, trimmed) to the
\* same token as the desired value; if no rule matches it returns the first
\* rule of the list, and the empty rule when the list is empty.
C17_FirstMatchingCommandRule ==
    /\ (wfn = "_select_command_rule" /\ wpc = "Returned")
          => selected_rule = ExpectedRule(command_rules, desired_value)
    /\ (wfn = "async_write" /\ wpc # "Input" /\ RawRoute)
          => selected_rule =
                ExpectedRule(SelectSeq(write_descriptor.mapping.command_rules.items,
                                       LAMBDA r : r.isdict),
                             Prepared.prepared.raw_value)

\* the first rule matches by value only, the second by logic: the first wins
C17_Witness ==
    /\ wfn = "_select_command_rule" /\ wpc = "Returned"
    /\ desired_value = PyBool(TRUE)
    /\ Len(command_rules) = 2
    /\ ValueMatches(command_rules[1], desired_value)
    /\ ~LogicMatches(command_rules[1], desired_value)
    /\ LogicMatches(command_rules[2], desired_value)
    /\ command_rules[1] # command_rules[2]
    /\ selected_rule = command_rules[1]

\* C18: async_write returns without raising only if it made a dispatch call to
\* the API client and that call reported success: a "not ok" result on either
\* route, and a selected rule without a command name, always surface as an
\* error to the caller and never as a silent success.
C18_ReturnOnlyAfterSuccessfulDispatch ==
    wfn = "async_write" =>
        /\ wpc = "Returned" => (Len(dispatched) = 1 /\ api_result = "ok")
        /\ api_result = "not_ok" => (wpc = "Raised" /\ error = "write_failed")
        /\ (wpc # "Input" /\ RawRoute /\ selected_rule.command.t # "str")
              => (wpc = "Raised" /\ error = "no_raw_command" /\ dispatched = <<>>)

\* the API client reports "not ok" on the raw command route
C18_Witness ==
    /\ wfn = "async_write" /\ wpc = "Raised"
    /\ Len(dispatched) = 1
    /\ dispatched[1].route = "raw_command"
    /\ api_result = "not_ok"
    /\ error = "write_failed"

\* C19: when prepare_write rejects the input (invalid enum value, out-of-bounds
\* value, no route available) or the descriptor has no device id, async_write
\* raises to the caller without making any dispatch call to the API client; and
\* no single async_write makes more than one dispatch call (a failed dispatch
\* is not retried).
C19_RejectedWriteIsNotDispatched ==
    wfn = "async_write" =>
        /\ Len(dispatched) <= 1
        /\ (wpc # "Input" /\ (NoDeviceId \/ ~Prepared.ok))
              => /\ wpc = "Raised"
                 /\ dispatched = <<>>
                 /\ api_result = "none"
                 /\ error = IF NoDeviceId THEN "missing_device_id" ELSE Prepared.err.kind
        /\ (~NoDeviceId /\ ~Prepared.ok)
              => Prepared.err.kind \in {"invalid_enum", "below_minimum",
                                        "exceeds_maximum", "no_route"}
        /\ api_result \in {"not_ok", "raises"} => (wpc = "Raised" /\ Len(dispatched) = 1)

\* an addressed descriptor with a device id and a value above its maximum
C19_Witness ==
    /\ wfn = "async_write" /\ wpc = "Raised"
    /\ write_descriptor.devid = PyStr(sMod1)
    /\ write_descriptor.pool = PyStr(sP4)
    /\ write_input = PyInt(20)
    /\ write_descriptor.max = PyInt(10)
    /\ error = "exceeds_maximum"
    /\ dispatched = <<>>

\* this step is an async_setup_entry
SetupStep == setups' = setups + 1

\* the cached descriptor list is the output of normalize_cached_descriptors and
\* this setup takes the cached branch
NormalizedCacheFound ==
    /\ cache_source = "normalize"
    /\ ~options_changed /\ ~missing_cached_payload

\* C15 as stated: normalize_cached_descriptors is idempotent: applying it to its
\* own output returns an equal descriptor list (same descriptors, same order,
\* same writable, platform, options, enum_map and raw_to_label), so a setup that
\* finds an already normalized cache does not write the config entry again.
C15_NormalizeIdempotent ==
    [][(SetupStep /\ NormalizedCacheFound)
          => /\ DescriptorsEq(normalize_cached_descriptors(entry_data.entity_descriptors),
                              entry_data.entity_descriptors)
             /\ entry_writes' = entry_writes
             /\ entry_data' = entry_data]_vars

\* an earlier setup rebuilt the bootstrap payload and stored it, and the options
\* of the entry are the ones it was built for
BuiltForTheseOptions == built_options.built /\ built_options.options = entry_options

\* C20 as stated: bootstrap classification runs once per configuration change:
\* after async_setup_entry has rebuilt the bootstrap payload and stored it in
\* the entry, any later async_setup_entry of the same entry with unchanged
\* options (object id, module list, entity filter mode, per-module filter
\* modes) uses the cached descriptors and does not rebuild the payload again.
C20_RebuildOncePerOptionsChange ==
    [][(SetupStep /\ BuiltForTheseOptions) => rebuilds' = rebuilds]_vars

\* the classification call of this state raised
ClassificationRaised == cpc = "Raised"

\* C21 as stated: classification never raises: is_exposable, infer_platform,
\* enum_maps and normalize_cached_descriptors return a result for every
\* descriptor input, and unresolvable or ambiguous metadata falls through to the
\* documented defaults (an unaddressed non-special writable symbol becomes
\* button, no match anywhere becomes switch).
C21_ClassificationNeverRaises ==
    /\ ~ClassificationRaised
    /\ (cfn = "classify" /\ cpc = "Done" /\ ButtonCase(candidate))
          => platform = "button"
    /\ (cfn = "classify" /\ cpc = "Done"
          /\ \A i \in 1..(Len(PlatformRules) - 1) : ~PlatformRules[i].when)
          => platform = "switch"

\* the value async_setup_entry works with: the option when the options flow
\* stored one, the entry data otherwise
Effective(key) == IF entry_options.present THEN entry_options[key] ELSE entry_data[key]

\* the cached data is stale: an effective setting differs from the stored one
CacheStale ==
    \/ Effective("object_id") # entry_data.object_id
    \/ Effective("modules") # entry_data.modules
    \/ Effective("entity_filter_mode") # entry_data.entity_filter_mode
    \/ Effective("module_filter_modes") # entry_data.module_filter_modes

\* the cached data is missing
CacheMissing == ~entry_data.has_payload

\* C24: async_setup_entry rebuilds the bootstrap payload exactly when the cached
\* data is missing or stale (the effective object id, module list, entity
\* filter mode or per-module filter modes differ from those stored in entry
\* data); otherwise it makes no bootstrap call, only runs
\* normalize_cached_descriptors on the cache, and writes the config entry back
\* only when normalization changed the descriptor list.
C24_RebuildIffMissingOrStale ==
    [][SetupStep =>
         IF CacheMissing \/ CacheStale
         THEN rebuilds' = rebuilds + 1
         ELSE /\ rebuilds' = rebuilds
              /\ api_modules' = api_modules
              /\ entry_data' = [entry_data EXCEPT !.entity_descriptors =
                                  normalize_cached_descriptors(entry_data.entity_descriptors)]
              /\ IF DescriptorsEq(entry_data'.entity_descriptors,
                                  entry_data.entity_descriptors)
                 THEN entry_writes' = entry_writes
                 ELSE entry_writes' = entry_writes + 1]_vars

\* new options made the cache stale and were rebuilt for, and the setup after
\* that one used the cache and wrote nothing
C24_Witness ==
    /\ setups = 2
    /\ rebuilds = 1
    /\ entry_writes = 1
    /\ entry_options.present
    /\ BuiltForTheseOptions
    /\ cache_source = "bootstrap"

\* the keys of an enum_map, in order
KeysInOrder(enum_map) == [i \in 1..Len(enum_map) |-> enum_map[i].label]

\* enum_display_to_raw(option, enum_map of the entity) returns enum_map[option]
OptionConverts(d, option) ==
    LET result == enum_display_to_raw(PyStr(option), descriptor_enum_map(d))
    IN  /\ result.ok
        /\ \E i \in 1..Len(d.enum_map) :
              d.enum_map[i].label = option /\ result.val = d.enum_map[i].raw

\* C27: for every descriptor emitted by normalize_cached_descriptors or
\* bootstrap, options equals the keys of enum_map in order, so for every option
\* a select entity offers, enum_display_to_raw(option, enum_map) succeeds
\* without an invalid-enum error and returns enum_map[option].
C27_OptionsAreEnumKeys ==
    ListDone =>
        \A k \in 1..Len(normalized) :
            /\ normalized[k].options = KeysInOrder(normalized[k].enum_map)
            /\ \A j \in 1..Len(descriptor_options(normalized[k])) :
                  OptionConverts(normalized[k], descriptor_options(normalized[k])[j])

\* an emitted select with two options, one of them with a raw value that is a
\* text
C27_Witness ==
    /\ ListDone
    /\ \E k \in 1..Len(normalized) :
          /\ normalized[k].platform = "select"
          /\ Len(descriptor_options(normalized[k])) = 2
          /\ \E i \in 1..2 : normalized[k].enum_map[i].raw.t = "str"

\* the selected rule has a "value" key
HasValueKey(rule) == rule.value.t # "absent"

\* C25: on the raw_command route async_write dispatches the selected rule's
\* command with the selected rule's own value whenever that rule has a value
\* key, and with the prepared raw value only when the rule has no value; so the
\* value sent to the device can differ from the value the caller asked to write.
C25_RawCommandSendsRuleValue ==
    (wfn = "async_write" /\ wpc # "Input" /\ RawRoute /\ dispatched # <<>>)
        => /\ Len(dispatched) = 1
           /\ dispatched[1].route = "raw_command"
           /\ dispatched[1].command = selected_rule.command.s
           /\ dispatched[1].value = IF HasValueKey(selected_rule) THEN selected_rule.value
                                    ELSE Prepared.prepared.raw_value

\* the caller asked to write 20, no rule matches, and the value 1 of the first
\* rule is sent
C25_Witness ==
    /\ wfn = "async_write" /\ wpc = "Returned"
    /\ RawRoute
    /\ write_input = PyInt(20)
    /\ Prepared.prepared.raw_value = PyInt(20)
    /\ Len(dispatched) = 1
    /\ HasValueKey(selected_rule)
    /\ dispatched[1].value = PyInt(1)

\* a handler starts its write request in this step
WriteRequested == epc = "Idle" /\ epc' = "Writing"

\* the async_write of a pending request advances in this step
WriteAdvanced == epc = "Writing" /\ wpc' # wpc

\* C26: for select, switch and number entities, the locally held state (current
\* option, is_on, native value) changes because of a write request only after
\* async_write has returned successfully; when the write raises (validation
\* error or failed dispatch) the state held before the request is unchanged.
C26_StateFollowsSuccessfulWrite ==
    [][/\ WriteRequested => held' = held
       /\ WriteAdvanced =>
            IF wpc' = "Returned"
            THEN api_result' = "ok" /\ held' = requested
            ELSE held' = held]_vars

\* the dispatch of a select's write failed and the option it holds is not the
\* requested one
C26_Witness ==
    /\ ekind = "select"
    /\ epc = "Idle"
    /\ wpc = "Raised" /\ error = "write_failed"
    /\ requested.t = "str"
    /\ held # requested

ExpectedDeliveries(callback) == [k \in 1..Len(SelectSeq([i \in 1..Len(taken) |-> i], LAMBDA i : callback \in taken[i].to /\ ~(i = Len(taken) /\ callback \in pending))) |-> taken[SelectSeq([i \in 1..Len(taken) |-> i], LAMBDA i : callback \in taken[i].to /\ ~(i = Len(taken) /\ callback \in pending))[k]].update]

InBusOrder(updates) == \A i \in 1..Len(updates), j \in 1..Len(updates) : i < j => updates[i] < updates[j]

\* C22: every update taken from the bus is delivered exactly once to each
\* listener registered when it is taken, the fan-out of one update is
\* complete before the next is taken, and every listener sees the updates
\* in the order the bus produced them.
C22_SerializedDispatch ==
    /\ \A callback \in Callbacks :
          /\ delivered[callback] = ExpectedDeliveries(callback)
          /\ InBusOrder(delivered[callback])
    /\ InBusOrder([i \in 1..Len(taken) |-> taken[i].update])
    /\ pending # {} => pending \subseteq taken[Len(taken)].to

\* Two updates were fanned out to different sets of listeners, one listener
\* received both and another only one of them.
C22_Witness ==
    /\ Len(taken) >= 2
    /\ pending = {}
    /\ taken[1].to # taken[2].to
    /\ \E a \in Callbacks, b \in Callbacks :
          /\ Len(delivered[a]) = 2
          /\ Len(delivered[b]) = 1

\* The unsubscribe callable i was called and its callback has not been
\* passed to add_listener since.
Unsubscribed(i) == handles[i].calls > 0 /\ ~handles[i].renewed

StopLeft == spc \in {"done", "raised"}

\* C23: whatever state the tasks are in, stop() leaves the task list empty,
\* the gateway stopped and the API client closed.
C23_StopReleasesEverything ==
    StopLeft => tasks = <<>> /\ gateway = "stopped" /\ api_client = "closed"

\* C29: an entry is created only with authenticated credentials, a selected
\* object whose fetched module list is not empty, and a submitted selection
\* that is not empty, holds only available modules and has a valid filter
\* mode for each; a step entered without its prerequisites shows the form
\* of an earlier step and creates no entry.
C29_EntryOnlyAfterPrerequisites ==
    [][ /\ flow_entry'.created =>
              /\ <<flow_entry'.email, flow_entry'.password>> \in authenticated
              /\ flow_entry'.object_id # NoObject
              /\ fetched[flow_entry'.object_id].done
              /\ fetched[flow_entry'.object_id].choices = _module_choices
              /\ _module_choices # <<>>
              /\ flow_entry'.modules # <<>>
              /\ Members(flow_entry'.modules) \subseteq Members(_module_choices)
              /\ \A module_id \in Members(flow_entry'.modules) :
                    /\ _module_filter_modes'[module_id] \in _entity_filter_mode_values
                    /\ flow_input'.modules = flow_entry'.modules
                    /\ flow_input'.modes[module_id].present =>
                          Lower(Strip(flow_input'.modes[module_id].text)) = _module_filter_modes'[module_id]
        /\ (flow_step' = "select_site" /\ (_email = NoText \/ _password = NoText)) =>
              flow_result' = Form("user", "") /\ flow_entry' = flow_entry /\ ~flow_entry.created
        /\ (flow_step' = "select_modules" /\ (_email = NoText \/ _password = NoText \/ _selected_object_id = NoObject)) =>
              flow_result' = Form("user", "") /\ flow_entry' = flow_entry /\ ~flow_entry.created
        /\ (flow_step' = "select_modules" /\ _email # NoText /\ _password # NoText /\ _selected_object_id # NoObject /\ _module_choices = <<>>) =>
              flow_result' = Form("select_site", "") /\ flow_entry' = flow_entry /\ ~flow_entry.created
      ]_flowVars

\* An entry was created for two modules, one with a submitted mode and one
\* with the default.
C29_Witness ==
    /\ flow_entry.created
    /\ Len(flow_entry.modules) = 2
    /\ flow_entry.modules[1] # flow_entry.modules[2]
    /\ flow_input.modes[flow_entry.modules[1]].present
    /\ ~flow_input.modes[flow_entry.modules[2]].present

====
